---- MODULE Spec2Model ----
(***************************************************************************)
(* QiAlchemy - the HealthKit snapshot aggregation of HealthKitManager.swift *)
(* (getHealthSnapshot): one call fans out independent asynchronous queries, *)
(* every completion handler merges its result into state local to the call  *)
(* under the instance lock, and a dispatch group joins the completions      *)
(* before the call resolves a snapshot or rejects with the first error.     *)
(*                                                                         *)
(* Doubles are fixed-point integers in thousandths (970 is 0.97) between   *)
(* -DoubleMax and DoubleMax, which stand for the least and the greatest    *)
(* finite double; the non-finite doubles are separate leaf values. Dates   *)
(* are minutes on one time line.                                           *)
(***************************************************************************)
EXTENDS Integers, Sequences, FiniteSets, TLC

(* ------------------------------------------------------------------ *)
(* Bounds of the model                                                 *)
(* ------------------------------------------------------------------ *)

\* At most this many queries of one call take the asynchronous path; the
\* other queries of the fan-out take the synchronous completion(nil, nil)
\* path of their guard (missing sample type, failed date arithmetic).
MaxAsync == 2

\* The same bound for the specification in which two calls overlap.
MaxAsyncOverlap == 1

\* The same bound for the specification with fairness.
MaxAsyncLive == 1

Calls == {1, 2}

IOSVersions == {15, 16, 17, 18}

(* ------------------------------------------------------------------ *)
(* Values crossing the bridge                                          *)
(* ------------------------------------------------------------------ *)

Num(x) == [t |-> "num", v |-> x, s |-> ""]
Str(x) == [t |-> "str", v |-> 0, s |-> x]
Bool(b) == [t |-> "bool", v |-> IF b THEN 1 ELSE 0, s |-> ""]
NaN == [t |-> "nan", v |-> 0, s |-> ""]
Infinity == [t |-> "inf", v |-> 0, s |-> ""]
NegInfinity == [t |-> "inf", v |-> -1, s |-> ""]

\* The greatest finite double (in thousandths); a product beyond it is
\* infinite.
DoubleMax == 2000000000

\* The greatest finite double.
Huge == Num(DoubleMax)

\* value * 100.0
Times100(x) ==
  IF x.t # "num" THEN x
  ELSE IF x.v > DoubleMax \div 100 THEN Infinity
  ELSE IF x.v < -(DoubleMax \div 100) THEN NegInfinity
  ELSE Num(x.v * 100)

\* value / n for a double and a positive whole number n (to thousandths)
DividedBy(x, n) == IF x.t # "num" THEN x ELSE Num(x.v \div n)

\* Double.isFinite
isFinite(x) == x.t = "num"

\* Darwin.round on thousandths, to a multiple of `unit` thousandths:
\* half away from zero.
DarwinRound(x, unit) ==
  IF x >= 0 THEN ((x + unit \div 2) \div unit) * unit
            ELSE -((((-x) + unit \div 2) \div unit) * unit)

\* The digit counts that thousandths can express.
Digits == 0..3

\* pow(10.0, Double(digits))
RECURSIVE pow10(_)
pow10(digits) == IF digits = 0 THEN 1 ELSE 10 * pow10(digits - 1)

\* value * factor for a finite value: infinite beyond the greatest double.
TimesFactor(value, factor) ==
  IF value.v > DoubleMax \div factor THEN Infinity
  ELSE IF value.v < -(DoubleMax \div factor) THEN NegInfinity
  ELSE Num(value.v * factor)

\* Self.round(value, digits:): 0 for a non-finite value, else
\* Darwin.round(value * factor) / factor with factor 10^digits: the value
\* rounded to that many decimals, or the infinite product when
\* value * factor overflows.
roundDigits(value, digits) ==
  IF ~isFinite(value) THEN Num(0)
  ELSE IF ~isFinite(TimesFactor(value, pow10(digits))) THEN TimesFactor(value, pow10(digits))
  ELSE Num(DarwinRound(value.v, pow10(3 - digits)))

\* Self.round(value), with the default digits = 2.
round(value) == roundDigits(value, 2)

\* isBridgeSafeValue: a number must be finite; booleans, strings and every
\* other value pass.
isBridgeSafeValue(value) ==
  IF value.t \in {"num", "nan", "inf"} THEN isFinite(value) ELSE TRUE

\* A transform that leaves every reading as it arrives.
percentTransformNoScale(raw) == raw

\* The transform closure of the percent metrics: raw <= 1 ? raw * 100 : raw
\* (every comparison with NaN is false).
percentTransform(raw) ==
  IF raw.t = "num" THEN (IF raw.v <= 1000 THEN Times100(raw) ELSE raw)
  ELSE IF raw.t = "inf" THEN raw
  ELSE raw

(* ------------------------------------------------------------------ *)
(* Errors                                                              *)
(* ------------------------------------------------------------------ *)

HKErrorNoData == 11

\* An NSError as the code reads it: domain, code, whether the lowercased
\* localizedDescription contains "no data available for the specified
\* predicate", and the delivery (call, query) that created the object.
MkError(domain, code, msg, src) ==
  [domain |-> domain, code |-> code, msgNoData |-> msg, src |-> src]

NoErr == MkError("", 0, FALSE, <<0, "">>)

\* The errors the sample provider may hand to a completion of (c, q):
\* HealthKit's errorNoData, an error whose message says that no data is
\* available for the predicate, and HealthKit's errorAuthorizationDenied (4).
ProviderErrors(c, q) ==
  { MkError("com.apple.healthkit", HKErrorNoData, FALSE, <<c, q>>),
    MkError("NSCocoaErrorDomain", 1, TRUE, <<c, q>>),
    MkError("com.apple.healthkit", 4, FALSE, <<c, q>>) }

\* A classification that tests the code alone.
isNoDataErrorCodeOnly(error) ==
  error.domain = "com.apple.healthkit" /\ error.code = HKErrorNoData

isNoDataError(error) ==
  \/ (error.domain = "com.apple.healthkit" /\ error.code = HKErrorNoData)
  \/ error.msgNoData

\* What setErrorIfNeeded does before it takes the lock: nothing to record
\* for a nil error or a NoData error.
IsGenuine(error) == error # NoErr /\ ~isNoDataError(error)

(* ------------------------------------------------------------------ *)
(* The fan-out of getHealthSnapshot                                    *)
(* ------------------------------------------------------------------ *)

SectionNames ==
  {"activity", "sleep", "heart", "oxygen", "metabolic", "environment", "body"}

\* One entry per modelled call site, in the order of the code. kind is the
\* shape of the completion handler; minIOS the #available gate (0: none);
\* note the note appended when the gate fails.
Query(name, kind, section, key, minIOS, note) ==
  [name |-> name, kind |-> kind, section |-> section, key |-> key,
   minIOS |-> minIOS, note |-> note]

\* A table in which the daylight query writes the key of the step query.
FanoutSameKey ==
  << Query("stepsToday", "cumulative", "activity", "stepsToday", 0, ""),
     Query("activityGoals", "goals", "activity", "", 0, ""),
     Query("daylight", "cumulative", "activity", "stepsToday", 17,
           "timeInDaylight requires iOS 17+"),
     Query("sleep", "sleep", "sleep", "", 0, ""),
     Query("apnea", "apnea", "sleep", "", 18, "sleepApneaEvent requires iOS 18+"),
     Query("afib", "latestPercent", "heart", "atrialFibrillationBurdenPercent", 16,
           "atrialFibrillationBurden requires iOS 16+"),
     Query("bloodOxygen", "latestPercent", "oxygen", "bloodOxygenPercent", 0, ""),
     Query("workouts", "workouts", "", "", 0, "") >>

Fanout ==
  << Query("stepsToday", "cumulative", "activity", "stepsToday", 0, ""),
     Query("activityGoals", "goals", "activity", "", 0, ""),
     Query("daylight", "cumulative", "environment", "daylightMinutesToday", 17,
           "timeInDaylight requires iOS 17+"),
     Query("sleep", "sleep", "sleep", "", 0, ""),
     Query("apnea", "apnea", "sleep", "", 18, "sleepApneaEvent requires iOS 18+"),
     Query("afib", "latestPercent", "heart", "atrialFibrillationBurdenPercent", 16,
           "atrialFibrillationBurden requires iOS 16+"),
     Query("bloodOxygen", "latestPercent", "oxygen", "bloodOxygenPercent", 0, ""),
     Query("workouts", "workouts", "", "", 0, "") >>

QueryNames == {Fanout[i].name : i \in 1..Len(Fanout)}

IndexByName == [q \in QueryNames |-> CHOOSE i \in 1..Len(Fanout) : Fanout[i].name = q]

IndexOf(q) == IndexByName[q]

QueryOf(q) == Fanout[IndexByName[q]]

GoalsNote == "activitySummary goals unavailable, using client fallback goals"
UnavailableNote == "HealthKit unavailable on current device"

EmptyDict == <<>>

\* dict[key] = value on a Swift dictionary
DictSet(dict, key, value) ==
  [k \in (DOMAIN dict) \cup {key} |-> IF k = key THEN value ELSE dict[k]]

\* values.forEach { key, raw in guard isBridgeSafeValue(raw) ...; dict[key] = raw }
DictMerge(dict, values) ==
  LET keep == {k \in DOMAIN values : isBridgeSafeValue(values[k])}
  IN [k \in (DOMAIN dict) \cup keep |-> IF k \in keep THEN values[k] ELSE dict[k]]

(* ------------------------------------------------------------------ *)
(* State                                                               *)
(* ------------------------------------------------------------------ *)

VARIABLES
  iosVersion,   \* the platform version the #available gates test
  available,    \* HKHealthStore.isHealthDataAvailable()
  syncNil,      \* queries whose guard fails: completion(nil, nil) inline
  lock,         \* holder of the instance NSLock, or NoHolder
  pc,           \* pc[c]: state of call c
  fanIdx,       \* fanIdx[c]: next entry of Fanout to issue
  inline,       \* inline[c]: the query whose code runs inside the fan-out, or ""
  group,        \* group[c]: the dispatch group's count of enter() minus leave()
  notify,       \* notify[c]: dispatchGroup.notify has been installed
  queryError,   \* queryError[c]
  sections,     \* sections[c][section]: dictionary of the section
  workouts,     \* workouts[c]
  notes,        \* notes[c]
  hpc,          \* hpc[c][q]: position of query q of call c and of its handler
  res,          \* res[c][q]: the (value, error) its completion received
  tmpErr,       \* tmpErr[c][q]: queryError as read inside setErrorIfNeeded
  tmpDict,      \* tmpDict[c][q]: the local var dict of setSectionValue/mergeSection
  tmpNotes,     \* tmpNotes[c][q]: notes as read inside appendNote
  errLockLog,   \* errLockLog[c]: queries in the order they locked in setErrorIfNeeded
  payload,      \* payload[c]: the dictionary built by the notify block
  outcome,      \* outcome[c]: the resolve/reject invocations made so far
  call,         \* a helper function under evaluation and its arguments
  ret,          \* what that evaluation returned
  platform,     \* Platform.OS
  nativeModule, \* NativeModules.HealthKitManager is there
  token,        \* a user is logged in (token is not empty)
  healthSyncInFlightRef,  \* healthSyncInFlightRef.current
  healthLoading,    \* the state that disables the two load buttons
  healthSnapshot,   \* the snapshot the screen holds, or NoSnapshot
  syncs         \* syncs[i]: the i-th invocation of syncHealthSnapshot

\* What no step of a snapshot call changes: the platform, the store, and
\* the evaluation of a helper function on its own.
appVars == <<platform, nativeModule, token, healthSyncInFlightRef, healthLoading,
             healthSnapshot, syncs>>
env == <<iosVersion, available, syncNil, call, ret, appVars>>
callVars == <<pc, fanIdx, inline, group, notify, payload, outcome>>
aggVars == <<queryError, sections, workouts, notes>>
handlerVars == <<hpc, res, tmpErr, tmpDict, tmpNotes, errLockLog>>
vars == <<iosVersion, available, syncNil, lock, pc, fanIdx, inline, group, notify,
          queryError, sections, workouts, notes, hpc, res, tmpErr, tmpDict,
          tmpNotes, errLockLog, payload, outcome, call, ret,
          platform, nativeModule, token, healthSyncInFlightRef, healthLoading,
          healthSnapshot, syncs>>

(* ------------------------------------------------------------------ *)
(* What a query hands to its completion                                *)
(* ------------------------------------------------------------------ *)

\* completion(value, error): has tells whether the first argument is non-nil;
\* val is a Double, dict a summary dictionary, list the workout records; raw
\* keeps the samples the health store handed to the result handler.
Result(err, has, val, dict, list) ==
  [err |-> err, has |-> has, val |-> val, dict |-> dict, list |-> list, raw |-> <<>>]

WithRaw(r, raw) == [r EXCEPT !.raw = raw]

NilResult == Result(NoErr, FALSE, Num(0), EmptyDict, <<>>)
ErrResult(e) == Result(e, FALSE, Num(0), EmptyDict, <<>>)
ValResult(x) == Result(NoErr, TRUE, x, EmptyDict, <<>>)
DictResult(d) == Result(NoErr, TRUE, Num(0), d, <<>>)
ListResult(l) == Result(NoErr, TRUE, Num(0), EmptyDict, l)

\* Doubles the provider may report: 0.97, 8342.004, the greatest finite
\* double and NaN.
RawDoubles == {Num(970), Num(8342004), Huge, NaN}

\* The dictionary queryTodayActivityGoals builds from the three goals of the
\* activity summary.
GoalsSummaryOf(moveGoal, exerciseGoal, standGoal) ==
  [k \in {"activeEnergyGoalKcal", "exerciseGoalMinutes", "standGoalHours"} |->
     IF k = "activeEnergyGoalKcal" THEN round(moveGoal)
     ELSE IF k = "exerciseGoalMinutes" THEN round(exerciseGoal) ELSE round(standGoal)]

\* Goals of 500 kcal, 30 minutes and 12 hours.
GoalsSummary == GoalsSummaryOf(Num(500000), Num(30000), Num(12000))

\* A date (a minute of the time line) as a leaf: the ISO 8601 string of it.
isoString(date) == [t |-> "date", v |-> date, s |-> ""]

\* The name of a workout activity type; "activity_<code>" for the others.
workoutTypeName(code) ==
  CASE code = 52 -> Str("walk")
    [] code = 37 -> Str("run")
    [] code = 13 -> Str("cycle")
    [] code = 46 -> Str("swim")
    [] code = 57 -> Str("yoga")
    [] code = 50 -> Str("strength")
    [] code = 63 -> Str("hiit")
    [] code = 24 -> Str("hike")
    [] OTHER -> [t |-> "str", v |-> code, s |-> "activity_"]

\* An HKWorkout: duration in seconds; energy and distance are optional.
Workout(code, start, end, duration, hasEnergy, energy, hasDistance, distance) ==
  [code |-> code, startDate |-> start, endDate |-> end, duration |-> duration,
   hasEnergy |-> hasEnergy, energy |-> energy,
   hasDistance |-> hasDistance, distance |-> distance]

\* The record queryRecentWorkouts builds for one workout.
WorkoutRecord(w) ==
  LET keys == {"activityTypeCode", "activityTypeName", "startDate", "endDate",
               "durationMinutes"}
                \cup (IF w.hasEnergy THEN {"totalEnergyKcal"} ELSE {})
                \cup (IF w.hasDistance THEN {"totalDistanceKm"} ELSE {})
  IN [k \in keys |->
        CASE k = "activityTypeCode" -> Num(w.code * 1000)
          [] k = "activityTypeName" -> workoutTypeName(w.code)
          [] k = "startDate" -> isoString(w.startDate)
          [] k = "endDate" -> isoString(w.endDate)
          [] k = "durationMinutes" -> round(DividedBy(w.duration, 60))
          [] k = "totalEnergyKcal" -> round(w.energy)
          [] k = "totalDistanceKm" -> round(w.distance)]

\* The workouts the store may return: none; a run of 30 minutes with its
\* energy; a workout of another type whose energy is NaN.
RawWorkoutLists ==
  { <<>>,
    << Workout(37, 9000, 9030, Num(1800000), TRUE, Num(250504), FALSE, Num(0)) >>,
    << Workout(99, 9100, 9110, Num(600000), TRUE, NaN, TRUE, Num(1200)) >> }

WorkoutRecords(raw) == [i \in 1..Len(raw) |-> WorkoutRecord(raw[i])]

(* ------------------------------------------------------------------ *)
(* Sleep and apnea summaries                                           *)
(* ------------------------------------------------------------------ *)

\* An HKCategorySample: its category value and its dates.
Sample(value, start, end) == [value |-> value, startDate |-> start, endDate |-> end]

\* HKCategoryValueSleepAnalysis raw values.
SleepInBed == 0
SleepAsleepUnspecified == 1
SleepAwake == 2
SleepAsleepCore == 3
SleepAsleepDeep == 4
SleepAsleepREM == 5

isSleepInBed(value) == value = SleepInBed

\* From iOS 16 the four asleep values; before, the one value asleep (raw
\* value 1).
isSleepAsleep(value) ==
  IF iosVersion >= 16
    THEN value \in {SleepAsleepUnspecified, SleepAsleepCore, SleepAsleepDeep, SleepAsleepREM}
    ELSE value = SleepAsleepUnspecified

\* An awake test without the platform gate.
isSleepAwakeAnyVersion(value) == value = SleepAwake

isSleepAwake(value) == IF iosVersion >= 16 THEN value = SleepAwake ELSE FALSE

sleepStageName(value) ==
  IF value = SleepInBed THEN "inBed"
  ELSE IF iosVersion >= 16
    THEN CASE value = SleepAsleepUnspecified -> "asleepUnspecified"
           [] value = SleepAwake -> "awake"
           [] value = SleepAsleepCore -> "asleepCore"
           [] value = SleepAsleepDeep -> "asleepDeep"
           [] value = SleepAsleepREM -> "asleepREM"
           [] OTHER -> "unknown"
  ELSE IF value = SleepAsleepUnspecified THEN "asleepUnspecified"
  ELSE "unknown"

StageNames ==
  {"inBed", "asleepUnspecified", "awake", "asleepCore", "asleepDeep", "asleepREM"}

\* sample.endDate.timeIntervalSince(sample.startDate), in minutes
Duration(sample) == sample.endDate - sample.startDate

\* The bucket of the if / else-if chain of buildSleepSummary.
SleepBucket(value) ==
  IF isSleepInBed(value) THEN "inBed"
  ELSE IF isSleepAsleep(value) THEN "asleep"
  ELSE IF isSleepAwake(value) THEN "awake"
  ELSE "none"

\* The minutes the forEach of buildSleepSummary adds to one bucket: the
\* samples of positive duration that fall into it.
RECURSIVE BucketMinutes(_, _)
BucketMinutes(samples, bucket) ==
  IF samples = <<>> THEN 0
  ELSE (IF Duration(Head(samples)) > 0 /\ SleepBucket(Head(samples).value) = bucket
          THEN Duration(Head(samples)) ELSE 0)
       + BucketMinutes(Tail(samples), bucket)

\* stageDurations[stage] after the forEach.
RECURSIVE StageMinutes(_, _)
StageMinutes(samples, stage) ==
  IF samples = <<>> THEN 0
  ELSE (IF Duration(Head(samples)) > 0 /\ sleepStageName(Head(samples).value) = stage
          THEN Duration(Head(samples)) ELSE 0)
       + StageMinutes(Tail(samples), stage)

\* A score that is not clamped.
ClampNone(x) == x

\* min(max(qualityBase, 45.0), 98.0), in hundredths
Clamp(x) == IF x < 4500 THEN 4500 ELSE IF x > 9800 THEN 9800 ELSE x

\* estimateSleepScore on whole minutes: the base in hundredths is
\* 95 - |asleep - 450| * 0.08 - awake * 0.45 + deep * 0.03 + rem * 0.02.
estimateSleepScore(asleepMinutes, awakeMinutes, deepMinutes, remMinutes) ==
  LET dist == IF asleepMinutes >= 450 THEN asleepMinutes - 450 ELSE 450 - asleepMinutes
      qualityBase == 9500 - dist * 8 - awakeMinutes * 45 + deepMinutes * 3 + remMinutes * 2
  IN DarwinRound(Clamp(qualityBase), 100) \div 100

\* lhs sorts before rhs: by start date, then by end date.
SampleBefore(lhs, rhs) ==
  IF lhs.startDate = rhs.startDate THEN lhs.endDate < rhs.endDate
  ELSE lhs.startDate < rhs.startDate

\* samples.sorted(by:) for an order given by keys ("startEnd": SampleBefore;
\* "start": the start date alone), as an insertion sort that keeps the order
\* of samples the comparison does not tell apart.
RECURSIVE InsertSample(_, _, _)
InsertSample(sorted, sample, keys) ==
  IF sorted = <<>> THEN <<sample>>
  ELSE LET last == sorted[Len(sorted)]
           before == IF keys = "startEnd" THEN SampleBefore(sample, last)
                     ELSE sample.startDate < last.startDate
       IN IF before
            THEN Append(InsertSample(SubSeq(sorted, 1, Len(sorted) - 1), sample, keys), last)
            ELSE Append(sorted, sample)

RECURSIVE SortSamples(_, _)
SortSamples(samples, keys) ==
  IF samples = <<>> THEN <<>>
  ELSE InsertSample(SortSamples(SubSeq(samples, 1, Len(samples) - 1), keys),
                    samples[Len(samples)], keys)

\* let maxGap: TimeInterval = 2 * 60 * 60, in minutes
maxGap == 120

\* A gap measured from the start of the last sample of the cluster.
GapFromStart(sample, last) == sample.startDate - last.startDate

\* sample.startDate.timeIntervalSince(last.endDate)
Gap(sample, last) == sample.startDate - last.endDate

\* The loop of clusterSleepSamples over the sorted samples.
RECURSIVE ClusterLoop(_, _, _)
ClusterLoop(rest, clusters, currentCluster) ==
  IF rest = <<>>
    THEN (IF currentCluster # <<>> THEN Append(clusters, currentCluster) ELSE clusters)
  ELSE LET sample == Head(rest)
       IN IF currentCluster = <<>>
            THEN ClusterLoop(Tail(rest), clusters, <<sample>>)
          ELSE IF Gap(sample, currentCluster[Len(currentCluster)]) <= maxGap
            THEN ClusterLoop(Tail(rest), clusters, Append(currentCluster, sample))
          ELSE ClusterLoop(Tail(rest), Append(clusters, currentCluster), <<sample>>)

clusterSleepSamples(samples) ==
  IF samples = <<>> THEN <<>>
  ELSE ClusterLoop(SortSamples(samples, "startEnd"), <<>>, <<>>)

\* A value of a summary that is itself a dictionary or a list.
Nested(kind, d) == [t |-> kind, v |-> 0, s |-> "", d |-> d]

\* return nil
NoSummary == [has |-> FALSE, dict |-> EmptyDict]

SleepSummaryKeys ==
  {"inBedMinutesLast36h", "asleepMinutesLast36h", "awakeMinutesLast36h",
   "sampleCountLast36h", "sleepScore", "sleepScoreSource", "sleepScoreWindowStart",
   "sleepScoreWindowEnd", "sleepScoreFallbackUsed", "stageMinutesLast36h",
   "samplesLast36h"}

\* A builder that returns a summary for any non-empty sample list.
HasSleepAlways(asleepMinutes) == TRUE

\* The test after the forEach: if asleepMinutes <= 0 { return nil }
HasSleep(asleepMinutes) == ~(asleepMinutes <= 0)

\* buildSleepSummary: nil (NoSummary) for no samples and for no minute
\* asleep, else the summary dictionary.
buildSleepSummary(categorySamples, windowStart, windowEnd, scoreSource) ==
  LET asleepMinutes == BucketMinutes(categorySamples, "asleep")
      awakeMinutes == BucketMinutes(categorySamples, "awake")
      sorted == SortSamples(categorySamples, "start")
  IN IF categorySamples = <<>> \/ ~HasSleep(asleepMinutes) THEN NoSummary
     ELSE [has |-> TRUE, dict |->
       [k \in SleepSummaryKeys |->
          CASE k = "inBedMinutesLast36h" ->
                 round(Num(1000 * BucketMinutes(categorySamples, "inBed")))
            [] k = "asleepMinutesLast36h" -> round(Num(1000 * asleepMinutes))
            [] k = "awakeMinutesLast36h" -> round(Num(1000 * awakeMinutes))
            [] k = "sampleCountLast36h" -> Num(1000 * Len(categorySamples))
            [] k = "sleepScore" ->
                 Num(1000 * estimateSleepScore(asleepMinutes, awakeMinutes,
                                               StageMinutes(categorySamples, "asleepDeep"),
                                               StageMinutes(categorySamples, "asleepREM")))
            [] k = "sleepScoreSource" -> Str(scoreSource)
            [] k = "sleepScoreWindowStart" -> isoString(windowStart)
            [] k = "sleepScoreWindowEnd" -> isoString(windowEnd)
            [] k = "sleepScoreFallbackUsed" -> Bool(scoreSource # "today")
            [] k = "stageMinutesLast36h" ->
                 Nested("dict", [st \in StageNames |->
                                   round(Num(1000 * StageMinutes(categorySamples, st)))])
            [] k = "samplesLast36h" ->
                 Nested("list", [i \in 1..Len(sorted) |->
                                   [value |-> sorted[i].value,
                                    stage |-> sleepStageName(sorted[i].value),
                                    startDate |-> isoString(sorted[i].startDate),
                                    endDate |-> isoString(sorted[i].endDate)]])]]

\* A scan that ends with a summary of the lowest score.
FallbackExhaustedLowestScore ==
  [has |-> TRUE, dict |-> [k \in {"sleepScore"} |-> Num(45000)]]

\* completion(nil, nil) after the loop: no cluster gave a summary.
FallbackExhausted == NoSummary

\* A scan that starts at the oldest cluster.
FallbackOrderOldestFirst(n, step) == step

\* for cluster in clusters.reversed(): the index of the cluster visited at
\* the given step (1: first) among n clusters.
FallbackOrder(n, step) == n + 1 - step

\* The loop of queryMostRecentSleepSummaryFallback from the given step on:
\* the first summary that buildSleepSummary returns, or nil.
RECURSIVE FallbackScan(_, _)
FallbackScan(clusters, step) ==
  IF step > Len(clusters) THEN FallbackExhausted
  ELSE LET cluster == clusters[FallbackOrder(Len(clusters), step)]
           summary == buildSleepSummary(cluster, cluster[1].startDate,
                                        cluster[Len(cluster)].endDate, "latestAvailable")
       IN IF summary.has THEN summary ELSE FallbackScan(clusters, step + 1)

\* What the result handler of the fallback query passes on for the samples
\* of the last 365 days.
FallbackSummary(samples) == FallbackScan(clusterSleepSamples(samples), 1)

\* A classification whose threshold of 20 minutes still counts as "watch".
apneaRiskLevelInclusive(eventCount, totalMinutes) ==
  IF eventCount = 0 THEN "none"
  ELSE IF eventCount <= 2 /\ totalMinutes <= 20000 THEN "watch"
  ELSE "high"

\* if eventCount == 0 "none"; if eventCount <= 2 && totalMinutes < 20
\* "watch"; else "high" (totalMinutes in thousandths of a minute).
apneaRiskLevel(eventCount, totalMinutes) ==
  IF eventCount = 0 THEN "none"
  ELSE IF eventCount <= 2 /\ totalMinutes < 20000 THEN "watch"
  ELSE "high"

\* The reminder: one text per risk level; the texts for "watch" and the
\* default one carry the event count.
apneaReminderText(riskLevel, eventCount) ==
  CASE riskLevel = "none" -> [t |-> "str", v |-> 0, s |-> "reminder_none"]
    [] riskLevel = "watch" -> [t |-> "str", v |-> eventCount, s |-> "reminder_watch"]
    [] OTHER -> [t |-> "str", v |-> eventCount, s |-> "reminder_evaluate"]

\* What a reminder text says, read off the three string literals: that no
\* event was detected and to keep observing when there is snoring, morning
\* headache or daytime sleepiness; the number of events and to keep a regular
\* routine and go on tracking; the number of events and to see a sleep
\* specialist for further evaluation.
ReminderStatements(text) ==
  CASE text.s = "reminder_none" -> {"noEventDetected", "keepObserving"}
    [] text.s = "reminder_watch" -> {"eventCount", "regularRoutine", "keepTracking"}
    [] OTHER -> {"eventCount", "seeSleepSpecialist"}

\* partial + max(duration, 0) / 60.0 over the samples, in thousandths of a
\* minute.
RECURSIVE ApneaMinutes(_)
ApneaMinutes(samples) ==
  IF samples = <<>> THEN 0
  ELSE (IF Duration(Head(samples)) > 0 THEN 1000 * Duration(Head(samples)) ELSE 0)
       + ApneaMinutes(Tail(samples))

\* The dictionary under "apnea" that querySleepApneaSummaryLast30Days builds
\* from the events of the last 30 days (latest first).
ApneaDict(samples) ==
  LET eventCount == Len(samples)
      totalMinutes == ApneaMinutes(samples)
      riskLevel == apneaRiskLevel(eventCount, totalMinutes)
      keys == {"eventCountLast30d", "durationMinutesLast30d", "riskLevel", "reminder"}
                \cup (IF samples # <<>> THEN {"latestEventAt"} ELSE {})
  IN [k \in keys |->
        CASE k = "eventCountLast30d" -> Num(1000 * eventCount)
          [] k = "durationMinutesLast30d" -> round(Num(totalMinutes))
          [] k = "riskLevel" -> Str(riskLevel)
          [] k = "reminder" -> apneaReminderText(riskLevel, eventCount)
          [] k = "latestEventAt" -> isoString(samples[1].endDate)]

\* ["apnea": apnea]
ApneaSummary(samples) == [k \in {"apnea"} |-> Nested("dict", ApneaDict(samples))]

\* let now = Date(), a minute of the time line
Now == 10000

\* The start of the 36-hour window.
WindowStart == Now - 36 * 60

\* What the store may hold for the last 36 hours: nothing; time in bed
\* only; a night in stages; a night of unspecified sleep.
PrimarySampleLists ==
  { <<>>,
    << Sample(SleepInBed, 9000, 9480) >>,
    << Sample(SleepAsleepCore, 9000, 9400), Sample(SleepAwake, 9400, 9420),
       Sample(SleepAsleepDeep, 9420, 9500) >>,
    << Sample(SleepAsleepUnspecified, 9000, 9420) >> }

\* What the store may hold of the days before: nothing; time in bed only;
\* two nights of sleep, each followed by a night of time in bed only.
OlderSampleLists ==
  { <<>>,
    << Sample(SleepInBed, 5000, 5400) >>,
    << Sample(SleepAsleepUnspecified, 100, 400), Sample(SleepInBed, 1000, 1400),
       Sample(SleepAsleepUnspecified, 3000, 3120), Sample(SleepInBed, 6000, 6300) >> }

\* The apnea events the store may hold: none; one of 25 minutes.
ApneaSampleLists == { <<>>, << Sample(1, 9000, 9025) >> }

\* The summary of the 36-hour window.
PrimarySummary(samples) == buildSleepSummary(samples, WindowStart, Now, "today")

\* The (value, error) pairs the result handler of each query function can
\* pass to completion on its asynchronous path.
AsyncResults(c, q) ==
  LET kind == QueryOf(q).kind
      errs == {ErrResult(e) : e \in ProviderErrors(c, q)}
  IN CASE kind = "cumulative" -> errs \cup {NilResult} \cup {ValResult(x) : x \in RawDoubles}
       [] kind = "latestPercent" -> errs \cup {NilResult} \cup {ValResult(x) : x \in RawDoubles}
       [] kind = "goals" -> errs \cup {NilResult, DictResult(GoalsSummary)}
       [] kind = "sleep" ->
            errs \cup {WithRaw(DictResult(PrimarySummary(p).dict), <<p>>) :
                         p \in {x \in PrimarySampleLists : PrimarySummary(x).has}}
       [] kind = "apnea" ->
            errs \cup {WithRaw(DictResult(ApneaSummary(l)), l) : l \in ApneaSampleLists}
       [] kind = "workouts" ->
            errs \cup {WithRaw(ListResult(WorkoutRecords(l)), l) : l \in RawWorkoutLists}

\* The completions of the 365-day fallback sleep query, issued after the
\* 36-hour window held the samples primary: an error, or what the scan of
\* the clusters gives for the older samples followed by those of the window.
FallbackResults(c, q, primary) ==
  {WithRaw(ErrResult(e), <<primary>>) : e \in ProviderErrors(c, q)}
    \cup {WithRaw(IF FallbackSummary(older \o primary).has
                    THEN DictResult(FallbackSummary(older \o primary).dict)
                    ELSE NilResult,
                  <<primary, older \o primary>>) : older \in OlderSampleLists}

NoHolder == <<0, "">>

\* The dictionary handed to resolve. note is the list that the code joins
\* with "; " (empty: no "note" key); sections holds the section keys present.
Payload(authorized, sects, hasWorkouts, wk, note) ==
  [authorized |-> authorized, sections |-> sects, hasWorkouts |-> hasWorkouts,
   workouts |-> wk, note |-> note]

NoPayload == Payload(FALSE, <<>>, FALSE, <<>>, <<>>)

\* Updates made without taking the lock.
CanLockAlways == TRUE

\* self.lock.lock() returns only when no thread holds the lock.
CanLock == lock = NoHolder

EmptySections == [s \in SectionNames |-> EmptyDict]

\* Gates that let every platform through.
GateOpenAlways(q) == TRUE

\* Is the entry's #available gate open on this platform?
GateOpen(q) == iosVersion >= QueryOf(q).minIOS

\* Queries that run asynchronously on this platform.
AsyncQueries == {q \in QueryNames : GateOpen(q) /\ q \notin syncNil}

TypeOK ==
  /\ iosVersion \in IOSVersions
  /\ available \in BOOLEAN
  /\ syncNil \subseteq QueryNames
  /\ pc \in [Calls -> {"Idle", "CheckingAvailability", "Unauthorized", "Querying",
                       "AnyFailure", "AllSettled", "Assembling", "Done"}]
  /\ group \in [Calls -> Nat]

NoCall == [fn |-> "none"]
NoRet == [done |-> FALSE]

\* The most invocations of syncHealthSnapshot in one run of the application.
MaxSyncs == 2

Syncs == 1..MaxSyncs

\* A snapshot as the screen reads it: where it comes from, whether reading
\* was authorized, and which note it carries.
Snapshot(source, authorized, note) ==
  [source |-> source, authorized |-> authorized, note |-> note]

\* useState<HealthSnapshot | null>(null)
NoSnapshot == Snapshot("none", FALSE, "")

\* An invocation of syncHealthSnapshot that has not been made: where it is
\* (pc), its arguments, the native methods loadHealthSnapshot has called
\* for it, what they answered, the snapshot loadHealthSnapshot returned and
\* what the invocation returned.
IdleSync ==
  [pc |-> "idle", forceMock |-> FALSE, silent |-> FALSE, reason |-> "",
   calls |-> <<>>, isAvailable |-> "", authorized |-> "", snapshot |-> NoSnapshot,
   error |-> "", result |-> ""]

\* The application after start: nobody logged in, no sync made.
InitApp(platforms, modules) ==
  /\ platform \in platforms
  /\ nativeModule \in modules
  /\ token = FALSE
  /\ healthSyncInFlightRef = FALSE
  /\ healthLoading = FALSE
  /\ healthSnapshot = NoSnapshot
  /\ syncs = [i \in Syncs |-> IdleSync]

\* The state of the instance and of its calls before any call is made.
InitCalls ==
  /\ lock = NoHolder
  /\ pc = [c \in Calls |-> "Idle"]
  /\ fanIdx = [c \in Calls |-> 1]
  /\ inline = [c \in Calls |-> ""]
  /\ group = [c \in Calls |-> 0]
  /\ notify = [c \in Calls |-> FALSE]
  /\ queryError = [c \in Calls |-> NoErr]
  /\ sections = [c \in Calls |-> EmptySections]
  /\ workouts = [c \in Calls |-> <<>>]
  /\ notes = [c \in Calls |-> <<>>]
  /\ hpc = [c \in Calls |-> [q \in QueryNames |-> "idle"]]
  /\ res = [c \in Calls |-> [q \in QueryNames |-> NilResult]]
  /\ tmpErr = [c \in Calls |-> [q \in QueryNames |-> NoErr]]
  /\ tmpDict = [c \in Calls |-> [q \in QueryNames |-> EmptyDict]]
  /\ tmpNotes = [c \in Calls |-> [q \in QueryNames |-> <<>>]]
  /\ errLockLog = [c \in Calls |-> <<>>]
  /\ payload = [c \in Calls |-> NoPayload]
  /\ outcome = [c \in Calls |-> <<>>]

InitWith(maxAsync) ==
  /\ iosVersion \in IOSVersions
  /\ available \in BOOLEAN
  /\ syncNil \in SUBSET {q \in QueryNames : GateOpen(q)}
  /\ Cardinality(AsyncQueries) <= maxAsync
  /\ InitCalls
  /\ call = NoCall
  /\ ret = NoRet
  /\ InitApp({"ios"}, {TRUE})

Init == InitWith(MaxAsync)

(* ------------------------------------------------------------------ *)
(* getHealthSnapshot: availability check and fan-out                   *)
(* ------------------------------------------------------------------ *)

Resolved(p) == [kind |-> "resolve", payload |-> p, err |-> NoErr]
Rejected(e) == [kind |-> "reject", payload |-> NoPayload, err |-> e]

\* Where a completion handler goes after setErrorIfNeeded: the statement
\* that needs the lock, or dispatchGroup.leave() when nothing is stored.
BodyPc(q, r) ==
  LET kind == QueryOf(q).kind
  IN CASE kind = "cumulative" -> IF r.has /\ isFinite(r.val) THEN "bodyWait" ELSE "leave"
       [] kind = "latestPercent" ->
            IF r.has /\ isFinite(percentTransform(r.val)) THEN "bodyWait" ELSE "leave"
       [] kind = "goals" -> IF r.has THEN "bodyWait" ELSE "noteWait"
       [] kind \in {"sleep", "apnea"} -> IF r.has THEN "bodyWait" ELSE "leave"
       [] kind = "workouts" -> IF r.has THEN "bodyWait" ELSE "leave"

\* A handler that never calls setErrorIfNeeded.
HandlerPcNoError(q, r) == BodyPc(q, r)

\* Where a completion handler starts: setErrorIfNeeded returns at once for a
\* nil error and for a NoData error, and waits for the lock otherwise.
HandlerPc(q, r) == IF IsGenuine(r.err) THEN "errWait" ELSE BodyPc(q, r)

\* A JavaScript caller invokes getHealthSnapshot.
Invoke(c) ==
  /\ pc[c] = "Idle"
  /\ pc' = [pc EXCEPT ![c] = "CheckingAvailability"]
  /\ UNCHANGED <<env, lock, fanIdx, inline, group, notify, payload, outcome,
                 aggVars, handlerVars>>

\* An entry of the fan-out that touches nothing another thread can see: its
\* gate is closed and has no note, or its guard fails and its handler,
\* called with (nil, nil) before the query function returns, stores nothing
\* (enter() and leave() both happen inside the statement).
IsLocal(q) ==
  IF ~GateOpen(q) THEN QueryOf(q).note = ""
  ELSE q \in syncNil /\ HandlerPc(q, NilResult) = "leave"

\* The first entry from i on that is not local (Len(Fanout) + 1: none).
RECURSIVE SkipLocal(_)
SkipLocal(i) ==
  IF i <= Len(Fanout) /\ IsLocal(Fanout[i].name) THEN SkipLocal(i + 1) ELSE i

\* hpc[c] after the fan-out ran the local entries i..j-1 and entry q became st.
RanLocal(h, i, j, q, st) ==
  [x \in QueryNames |->
     IF x = q THEN st
     ELSE IF IndexOf(x) \in i..(j - 1) THEN (IF GateOpen(x) THEN "done" ELSE "skipped")
     ELSE h[x]]

\* A guard that always passes.
isHealthDataAvailableAlways == TRUE

\* HKHealthStore.isHealthDataAvailable()
isHealthDataAvailable == available

\* guard HKHealthStore.isHealthDataAvailable() else { resolve(...); return }
\* and, on an available store, the fan-out up to its first non-local entry.
CheckAvailability(c) ==
  /\ pc[c] = "CheckingAvailability"
  /\ IF isHealthDataAvailable
       THEN /\ pc' = [pc EXCEPT ![c] = "Querying"]
            /\ fanIdx' = [fanIdx EXCEPT ![c] = SkipLocal(1)]
            /\ hpc' = [hpc EXCEPT ![c] = RanLocal(@, 1, SkipLocal(1), "", "")]
            /\ UNCHANGED outcome
       ELSE /\ pc' = [pc EXCEPT ![c] = "Unauthorized"]
            /\ outcome' = [outcome EXCEPT ![c] = Append(@,
                 Resolved(Payload(FALSE, <<>>, FALSE, <<>>, <<UnavailableNote>>)))]
            /\ UNCHANGED <<fanIdx, hpc>>
  /\ UNCHANGED <<env, lock, inline, group, notify, payload,
                 aggVars, res, tmpErr, tmpDict, tmpNotes, errLockLog>>

\* A query that starts without registering with the group.
GroupEnterMissing(n) == n

\* The count of the group after dispatchGroup.enter().
GroupEnter(n) == n + 1

\* The next non-local statement of the fan-out, and the local ones after it:
\* a closed gate appends its note; a query whose guard fails runs its handler
\* with (nil, nil) inside the fan-out, which waits for it; any other query
\* enters the group and is executed by the health store.
FanOut(c) ==
  /\ pc[c] = "Querying"
  /\ fanIdx[c] <= Len(Fanout)
  /\ inline[c] = ""
  /\ LET i == fanIdx[c]
         q == Fanout[i].name
         j == SkipLocal(i + 1)
     IN /\ IF ~GateOpen(q)
             THEN /\ hpc' = [hpc EXCEPT ![c] = RanLocal(@, i + 1, j, q, "noteWait")]
                  /\ inline' = [inline EXCEPT ![c] = q]
                  /\ UNCHANGED <<group, res>>
             ELSE IF q \in syncNil
             THEN /\ group' = [group EXCEPT ![c] = GroupEnter(@)]
                  /\ res' = [res EXCEPT ![c][q] = NilResult]
                  /\ hpc' = [hpc EXCEPT ![c] =
                               RanLocal(@, i + 1, j, q, HandlerPc(q, NilResult))]
                  /\ inline' = [inline EXCEPT ![c] = q]
             ELSE /\ group' = [group EXCEPT ![c] = GroupEnter(@)]
                  /\ hpc' = [hpc EXCEPT ![c] = RanLocal(@, i + 1, j, q, "inflight")]
                  /\ UNCHANGED <<inline, res>>
        /\ fanIdx' = [fanIdx EXCEPT ![c] = j]
  /\ UNCHANGED <<env, lock, pc, notify, payload, outcome, aggVars,
                 tmpErr, tmpDict, tmpNotes, errLockLog>>

\* dispatchGroup.notify(queue: .main) { ... }
InstallNotify(c) ==
  /\ pc[c] = "Querying"
  /\ fanIdx[c] = Len(Fanout) + 1
  /\ inline[c] = ""
  /\ ~notify[c]
  /\ notify' = [notify EXCEPT ![c] = TRUE]
  /\ UNCHANGED <<env, lock, pc, fanIdx, inline, group, payload, outcome,
                 aggVars, handlerVars>>

(* ------------------------------------------------------------------ *)
(* Completions                                                         *)
(* ------------------------------------------------------------------ *)

\* The result handler of an executed query calls completion(value, error).
Complete(c, q) ==
  /\ hpc[c][q] = "inflight"
  /\ \E r \in AsyncResults(c, q) :
       /\ res' = [res EXCEPT ![c][q] = r]
       /\ hpc' = [hpc EXCEPT ![c][q] = HandlerPc(q, r)]
  /\ UNCHANGED <<env, lock, callVars, aggVars, tmpErr, tmpDict, tmpNotes, errLockLog>>

\* querySleepSummaryLast36Hours: buildSleepSummary gave nil for the 36-hour
\* window, so the handler executes the 365-day query with the same completion.
SleepHandoff(c, q) ==
  /\ hpc[c][q] = "inflight"
  /\ QueryOf(q).kind = "sleep"
  /\ \E p \in PrimarySampleLists :
       /\ ~PrimarySummary(p).has
       /\ res' = [res EXCEPT ![c][q] = WithRaw(NilResult, <<p>>)]
  /\ hpc' = [hpc EXCEPT ![c][q] = "fallback"]
  /\ UNCHANGED <<env, lock, callVars, aggVars, tmpErr, tmpDict, tmpNotes, errLockLog>>

\* The result handler of queryMostRecentSleepSummaryFallback.
CompleteFallback(c, q) ==
  /\ hpc[c][q] = "fallback"
  /\ \E r \in FallbackResults(c, q, res[c][q].raw[1]) :
       /\ res' = [res EXCEPT ![c][q] = r]
       /\ hpc' = [hpc EXCEPT ![c][q] = HandlerPc(q, r)]
  /\ UNCHANGED <<env, lock, callVars, aggVars, tmpErr, tmpDict, tmpNotes, errLockLog>>

(* ------------------------------------------------------------------ *)
(* The closures over the call's state                                   *)
(* ------------------------------------------------------------------ *)

\* Aggregation state kept on the instance instead of in the call.
CapturedShared(c) == 1

\* The call whose local variables a closure created by call c captures.
Captured(c) == c

\* An assignment without the nil test.
StoreErrorLast(current, error) == error

\* if queryError == nil { queryError = error }
StoreError(current, error) == IF current = NoErr THEN error ELSE current

\* setErrorIfNeeded: self.lock.lock(), then the test reads queryError.
ErrLock(c, q) ==
  /\ hpc[c][q] = "errWait"
  /\ CanLock
  /\ lock' = <<c, q>>
  /\ tmpErr' = [tmpErr EXCEPT ![c][q] = queryError[Captured(c)]]
  /\ errLockLog' = [errLockLog EXCEPT ![c] = Append(@, q)]
  /\ hpc' = [hpc EXCEPT ![c][q] = "errLocked"]
  /\ UNCHANGED <<env, callVars, aggVars, res, tmpDict, tmpNotes>>

\* setErrorIfNeeded: the assignment and self.lock.unlock().
ErrStore(c, q) ==
  /\ hpc[c][q] = "errLocked"
  /\ queryError' = [queryError EXCEPT ![Captured(c)] =
                      IF StoreError(tmpErr[c][q], res[c][q].err) = tmpErr[c][q]
                        THEN @ ELSE res[c][q].err]
  /\ lock' = NoHolder
  /\ hpc' = [hpc EXCEPT ![c][q] = BodyPc(q, res[c][q])]
  /\ UNCHANGED <<env, callVars, sections, workouts, notes, res, tmpErr, tmpDict,
                 tmpNotes, errLockLog>>

\* setSectionValue / mergeSection / the workouts assignment:
\* self.lock.lock(); var dict = sections[section] ?? [:]
BodyLock(c, q) ==
  /\ hpc[c][q] = "bodyWait"
  /\ CanLock
  /\ lock' = <<c, q>>
  /\ tmpDict' = [tmpDict EXCEPT ![c][q] =
                   IF QueryOf(q).kind = "workouts" THEN EmptyDict
                   ELSE sections[Captured(c)][QueryOf(q).section]]
  /\ hpc' = [hpc EXCEPT ![c][q] = "bodyLocked"]
  /\ UNCHANGED <<env, callVars, aggVars, res, tmpErr, tmpNotes, errLockLog>>

\* The dictionary a handler writes back to its section.
NewDict(q, dict, r) ==
  LET kind == QueryOf(q).kind
  IN CASE kind = "cumulative" -> DictSet(dict, QueryOf(q).key, round(r.val))
       [] kind = "latestPercent" ->
            DictSet(dict, QueryOf(q).key, round(percentTransform(r.val)))
       [] kind \in {"goals", "sleep", "apnea"} -> DictMerge(dict, r.dict)

\* dict[key] = ...; sections[section] = dict (or workouts = records);
\* self.lock.unlock()
BodyStore(c, q) ==
  /\ hpc[c][q] = "bodyLocked"
  /\ IF QueryOf(q).kind = "workouts"
       THEN /\ workouts' = [workouts EXCEPT ![Captured(c)] = res[c][q].list]
            /\ UNCHANGED sections
       ELSE /\ sections' = [sections EXCEPT ![Captured(c)][QueryOf(q).section] =
                              NewDict(q, tmpDict[c][q], res[c][q])]
            /\ UNCHANGED workouts
  /\ lock' = NoHolder
  /\ hpc' = [hpc EXCEPT ![c][q] = "leave"]
  /\ UNCHANGED <<env, callVars, queryError, notes, res, tmpErr, tmpDict, tmpNotes,
                 errLockLog>>

\* appendNote: self.lock.lock(), then append reads notes.
NoteLock(c, q) ==
  /\ hpc[c][q] = "noteWait"
  /\ CanLock
  /\ lock' = <<c, q>>
  /\ tmpNotes' = [tmpNotes EXCEPT ![c][q] = notes[Captured(c)]]
  /\ hpc' = [hpc EXCEPT ![c][q] = "noteLocked"]
  /\ UNCHANGED <<env, callVars, aggVars, res, tmpErr, tmpDict, errLockLog>>

\* appendNote: notes.append(note); self.lock.unlock(). The note of a closed
\* gate is appended by the fan-out itself, which then goes on; the goals
\* note is appended by the goals handler, which then leaves the group.
NoteStore(c, q) ==
  /\ hpc[c][q] = "noteLocked"
  /\ notes' = [notes EXCEPT ![Captured(c)] =
                 Append(tmpNotes[c][q],
                        IF GateOpen(q) THEN GoalsNote ELSE QueryOf(q).note)]
  /\ lock' = NoHolder
  /\ hpc' = [hpc EXCEPT ![c][q] = IF GateOpen(q) THEN "leave" ELSE "skipped"]
  /\ inline' = [inline EXCEPT ![c] = IF GateOpen(q) THEN @ ELSE ""]
  /\ UNCHANGED <<env, pc, fanIdx, group, notify, payload, outcome, queryError,
                 sections, workouts, res, tmpErr, tmpDict, tmpNotes, errLockLog>>

\* A handler that ends without signalling the group.
GroupLeaveMissing(n) == n

\* The count of the group after dispatchGroup.leave().
GroupLeave(n) == n - 1

\* dispatchGroup.leave(), the last statement of every completion handler.
Leave(c, q) ==
  /\ hpc[c][q] = "leave"
  /\ group' = [group EXCEPT ![c] = GroupLeave(@)]
  /\ hpc' = [hpc EXCEPT ![c][q] = "done"]
  /\ inline' = [inline EXCEPT ![c] = IF @ = q THEN "" ELSE @]
  /\ UNCHANGED <<env, lock, pc, fanIdx, notify, payload, outcome, aggVars, res,
                 tmpErr, tmpDict, tmpNotes, errLockLog>>

(* ------------------------------------------------------------------ *)
(* The block of dispatchGroup.notify                                   *)
(* ------------------------------------------------------------------ *)

\* A join that fires as soon as one query has failed.
NotifyReadyFirstFailure(c) == notify[c] /\ (group[c] = 0 \/ queryError[c] # NoErr)

\* The group runs the notify block once it is installed and every enter()
\* has been matched by a leave().
NotifyReady(c) == notify[c] /\ group[c] = 0

\* A notify block whose error branch lacks the return.
NotifyNextNoReturn(error) == "AllSettled"

\* if let queryError { reject(...); return }
NotifyNext(error) == IF error # NoErr THEN "AnyFailure" ELSE "AllSettled"

Notify(c) ==
  /\ pc[c] = "Querying"
  /\ NotifyReady(c)
  /\ pc' = [pc EXCEPT ![c] = NotifyNext(queryError[c])]
  /\ outcome' = [outcome EXCEPT ![c] =
                   IF queryError[c] # NoErr THEN Append(@, Rejected(queryError[c])) ELSE @]
  /\ UNCHANGED <<env, lock, fanIdx, inline, group, notify, payload, aggVars, handlerVars>>

\* A payload that copies every section, empty or not.
BuildPayloadAllSections(sects, wk, nts) == Payload(TRUE, sects, TRUE, wk, nts)

\* The payload of the notify block: authorized, workouts, every section
\* whose dictionary is not empty, and the joined notes if there are any.
BuildPayload(sects, wk, nts) ==
  Payload(TRUE,
          [s \in {x \in SectionNames : sects[x] # EmptyDict} |-> sects[s]],
          TRUE, wk, nts)

Assemble(c) ==
  /\ pc[c] = "AllSettled"
  /\ payload' = [payload EXCEPT ![c] = BuildPayload(sections[c], workouts[c], notes[c])]
  /\ pc' = [pc EXCEPT ![c] = "Assembling"]
  /\ UNCHANGED <<env, lock, fanIdx, inline, group, notify, outcome, aggVars, handlerVars>>

\* resolve(payload)
Resolve(c) ==
  /\ pc[c] = "Assembling"
  /\ outcome' = [outcome EXCEPT ![c] = Append(@, Resolved(payload[c]))]
  /\ pc' = [pc EXCEPT ![c] = "Done"]
  /\ UNCHANGED <<env, lock, fanIdx, inline, group, notify, payload, aggVars, handlerVars>>

(* ------------------------------------------------------------------ *)
(* Specifications                                                      *)
(* ------------------------------------------------------------------ *)

CallStep(c) ==
  \/ Invoke(c)
  \/ CheckAvailability(c)
  \/ FanOut(c)
  \/ InstallNotify(c)
  \/ Notify(c)
  \/ Assemble(c)
  \/ Resolve(c)

HandlerStep(c, q) ==
  \/ Complete(c, q)
  \/ SleepHandoff(c, q)
  \/ CompleteFallback(c, q)
  \/ ErrLock(c, q)
  \/ ErrStore(c, q)
  \/ BodyLock(c, q)
  \/ BodyStore(c, q)
  \/ NoteLock(c, q)
  \/ NoteStore(c, q)
  \/ Leave(c, q)

\* One call on the instance.
Next == CallStep(1) \/ \E q \in QueryNames : HandlerStep(1, q)

Spec == Init /\ [][Next]_vars

\* What the code itself guarantees to happen: the statements of the call on
\* the main queue and the statements of a completion handler once it has
\* been called. When the health store calls a completion is up to the store.
Progress ==
  \/ CheckAvailability(1) \/ FanOut(1) \/ InstallNotify(1)
  \/ Notify(1) \/ Assemble(1) \/ Resolve(1)
  \/ \E q \in QueryNames :
       \/ ErrLock(1, q) \/ ErrStore(1, q) \/ BodyLock(1, q) \/ BodyStore(1, q)
       \/ NoteLock(1, q) \/ NoteStore(1, q) \/ Leave(1, q)

InitLive == InitWith(MaxAsyncLive)

SpecLive == InitLive /\ [][Next]_vars /\ WF_vars(Progress)

\* Two calls that may overlap on the same instance, on the platforms with at
\* most one closed gate.
OverlapVersions == {17, 18}

InitOverlap == InitWith(MaxAsyncOverlap) /\ iosVersion \in OverlapVersions

NextOverlap == \E c \in Calls : CallStep(c) \/ \E q \in QueryNames : HandlerStep(c, q)

SpecOverlap == InitOverlap /\ [][NextOverlap]_vars

(* ------------------------------------------------------------------ *)
(* Properties                                                          *)
(* ------------------------------------------------------------------ *)

Terminal == {"Unauthorized", "AnyFailure", "Done"}

\* The completion of query q of call c has been delivered.
Delivered(c, q) == hpc[c][q] \notin {"idle", "skipped", "inflight", "fallback", "noteWait", "noteLocked"}
                     \/ (hpc[c][q] \in {"noteWait", "noteLocked"} /\ GateOpen(q))

\* Query q of call c was issued and its handler has not finished.
Pending(c, q) == hpc[c][q] \notin {"idle", "skipped", "done"} /\ GateOpen(q)

\* The classification of the claims: HealthKit's errorNoData, or the message.
ClaimedNoData(e) ==
  \/ (e.domain = "com.apple.healthkit" /\ e.code = 11)
  \/ e.msgNoData

ClaimedGenuine(e) == e # NoErr /\ ~ClaimedNoData(e)

\* Some query of call c completed with an error that is not NoData.
SomeGenuine(c) == \E q \in QueryNames : Delivered(c, q) /\ ClaimedGenuine(res[c][q].err)

\* C1. All-or-nothing aggregation: once a query of a call on an available
\* store has completed with an error that is not NoData, the call never
\* resolves a snapshot (it never reaches AllSettled, Assembling or Done and
\* never invokes resolve), and the outcome it delivers is the rejection
\* with a non-NoData query error, however many other queries succeeded and
\* in whatever order the completions ran.
C1_AllOrNothing ==
  \A c \in Calls :
    (available /\ SomeGenuine(c)) =>
      /\ pc[c] \in {"Querying", "AnyFailure"}
      /\ \A i \in 1..Len(outcome[c]) :
           outcome[c][i].kind = "reject" /\ ClaimedGenuine(outcome[c][i].err)
      /\ (NotifyReady(c) /\ \A q \in QueryNames : ~Pending(c, q)) =>
           queryError[c] # NoErr

\* A call rejected although another of its queries had stored a value.
C1_Witness ==
  /\ pc[1] = "AnyFailure"
  /\ Len(outcome[1]) = 1
  /\ outcome[1][1].kind = "reject"
  /\ \E q1, q2 \in QueryNames :
       /\ q1 # q2
       /\ ClaimedGenuine(res[1][q1].err)
       /\ res[1][q2].has /\ res[1][q2].err = NoErr
       /\ (sections[1]["activity"] # EmptyDict \/ workouts[1] # <<>>)

\* C2. Wait-for-all join: on an available store neither resolve nor reject
\* has been invoked, and the notify block has not run, while any query the
\* call issued (the sleep query's 365-day re-query included) has not yet
\* run its completion through to dispatchGroup.leave(); a recorded failure
\* does not end the call while a sibling query is pending.
C2_WaitForAll ==
  \A c \in Calls :
    (available /\ (outcome[c] # <<>> \/ pc[c] \notin {"Idle", "CheckingAvailability", "Querying"})) =>
      /\ notify[c]
      /\ \A q \in QueryNames : hpc[c][q] \in {"done", "skipped"}

\* A call rejected after its sleep query went through the fallback query
\* and another query had failed.
C2_Witness ==
  /\ pc[1] = "AnyFailure"
  /\ outcome[1] # <<>>
  /\ res[1]["sleep"].has
  /\ res[1]["sleep"].dict["sleepScoreSource"] = Str("latestAvailable")
  /\ \E q \in QueryNames : q # "sleep" /\ ClaimedGenuine(res[1][q].err)

AllowedTransitions ==
  { <<"Idle", "CheckingAvailability">>,
    <<"CheckingAvailability", "Unauthorized">>,
    <<"CheckingAvailability", "Querying">>,
    <<"Querying", "AnyFailure">>,
    <<"Querying", "AllSettled">>,
    <<"AllSettled", "Assembling">>,
    <<"Assembling", "Done">> }

\* C3. A call moves only along Idle -> CheckingAvailability -> Unauthorized,
\* Idle -> CheckingAvailability -> Querying -> AnyFailure, or Idle ->
\* CheckingAvailability -> Querying -> AllSettled -> Assembling -> Done, and
\* delivers exactly one outcome: nothing before a terminal state, and in a
\* terminal state one invocation, resolve in Unauthorized and Done, reject
\* in AnyFailure.
C3_OneOutcome ==
  /\ [][\A c \in Calls : pc'[c] # pc[c] => <<pc[c], pc'[c]>> \in AllowedTransitions]_vars
  /\ [](\A c \in Calls :
          /\ Len(outcome[c]) <= 1
          /\ (pc[c] \in Terminal <=> Len(outcome[c]) = 1)
          /\ (pc[c] \in {"Unauthorized", "Done"} => outcome[c][1].kind = "resolve")
          /\ (pc[c] = "AnyFailure" => outcome[c][1].kind = "reject"))

\* A call that resolved one authorized snapshot.
C3_Witness == pc[1] = "Done" /\ Len(outcome[1]) = 1 /\ outcome[1][1].kind = "resolve"
                    /\ outcome[1][1].payload.authorized

Range(seq) == {seq[i] : i \in 1..Len(seq)}

\* The keys only query q stores.
OwnedKeys(q) ==
  LET kind == QueryOf(q).kind
  IN CASE kind \in {"cumulative", "latestPercent"} -> {QueryOf(q).key}
       [] kind = "goals" -> DOMAIN GoalsSummary
       [] kind = "sleep" -> SleepSummaryKeys
       [] kind = "apnea" -> {"apnea"}
       [] kind = "workouts" -> {}

\* What the completion received by query q of call c adds to its section.
Contribution(c, q) ==
  LET r == res[c][q]
      kind == QueryOf(q).kind
      out == IF kind = "latestPercent" THEN percentTransform(r.val) ELSE r.val
  IN IF ~r.has \/ ~Delivered(c, q) THEN EmptyDict
     ELSE IF kind \in {"cumulative", "latestPercent"}
       THEN (IF isFinite(out) THEN [k \in {QueryOf(q).key} |-> round(out)] ELSE EmptyDict)
     ELSE IF kind = "workouts" THEN EmptyDict
     ELSE [k \in {x \in DOMAIN r.dict : isBridgeSafeValue(r.dict[x])} |-> r.dict[k]]

\* The section as the completions received by call c determine it.
ExpectedSection(c, s) ==
  LET qs == {q \in QueryNames : QueryOf(q).section = s}
      keys == UNION {DOMAIN Contribution(c, q) : q \in qs}
  IN [k \in keys |->
        Contribution(c, CHOOSE q \in qs : k \in DOMAIN Contribution(c, q))[k]]

ExpectedSections(c) ==
  [s \in {x \in SectionNames : ExpectedSection(c, x) # EmptyDict} |-> ExpectedSection(c, s)]

ExpectedWorkouts(c) == IF res[c]["workouts"].has THEN res[c]["workouts"].list ELSE <<>>

\* C4. NoData is absorbed: a query whose completion carries a NoData error
\* (HealthKit's errorNoData, or a message containing "no data available for
\* the specified predicate") never enters the locked part of
\* setErrorIfNeeded and never becomes the recorded error, the keys it owns
\* stay absent from its section, and when no query of the call reported
\* another error the call ends by resolving a snapshot that holds every
\* other query's values.
C4_NoDataAbsorbed ==
  \A c \in Calls :
    /\ \A q \in QueryNames :
         (Delivered(c, q) /\ res[c][q].err # NoErr /\ ClaimedNoData(res[c][q].err)) =>
           /\ hpc[c][q] \notin {"errWait", "errLocked"}
           /\ q \notin Range(errLockLog[c])
           /\ queryError[c] # res[c][q].err
           /\ OwnedKeys(q) \cap DOMAIN sections[c][IF QueryOf(q).section = "" THEN "activity"
                                                   ELSE QueryOf(q).section] = {}
           /\ (QueryOf(q).kind = "workouts" => workouts[c] = <<>>)
    /\ (available /\ pc[c] \in Terminal /\ ~SomeGenuine(c)) =>
           /\ pc[c] = "Done"
           /\ outcome[c] = <<Resolved(payload[c])>>
           /\ payload[c].sections = ExpectedSections(c)
           /\ payload[c].workouts = ExpectedWorkouts(c)

\* A snapshot resolved although one query reported NoData through its
\* message, holding the value of another query.
C4_Witness ==
  /\ pc[1] = "Done"
  /\ \E q1, q2 \in QueryNames :
       /\ res[1][q1].err # NoErr /\ res[1][q1].err.msgNoData
       /\ res[1][q2].has /\ Contribution(1, q2) # EmptyDict
       /\ outcome[1][1].payload.sections # <<>>

\* C5. First error wins: the error slot of a call, once set, never changes;
\* it holds the error received by the first query of the call that took
\* the lock in setErrorIfNeeded, which is not a NoData error; and the call
\* rejects with that error.
C5_FirstErrorWins ==
  /\ [][\A c \in Calls : queryError[c] # NoErr => queryError'[c] = queryError[c]]_vars
  /\ [](\A c \in Calls :
          /\ queryError[c] # NoErr =>
               /\ errLockLog[c] # <<>>
               /\ queryError[c] = res[c][errLockLog[c][1]].err
               /\ ClaimedGenuine(queryError[c])
          /\ pc[c] = "AnyFailure" =>
               outcome[c] = <<Rejected(res[c][errLockLog[c][1]].err)>>)

\* A call rejected after two of its queries failed.
C5_Witness ==
  /\ pc[1] = "AnyFailure"
  /\ Len(errLockLog[1]) = 2
  /\ errLockLog[1][1] # errLockLog[1][2]
  /\ outcome[1][1].err.src = <<1, errLockLog[1][1]>>

\* C6. On a store that reports itself unavailable a call issues no query
\* (no query leaves the idle state, the group is never entered, the lock is
\* never taken), never rejects, and its only step after the availability
\* check is to resolve { authorized: false, note } without sections or
\* workouts.
C6_Unavailable ==
  ~available =>
    \A c \in Calls :
      /\ pc[c] \in {"Idle", "CheckingAvailability", "Unauthorized"}
      /\ \A q \in QueryNames : hpc[c][q] = "idle"
      /\ group[c] = 0 /\ ~notify[c] /\ lock = NoHolder
      /\ (pc[c] = "Unauthorized" =>
            outcome[c] = <<Resolved(Payload(FALSE, <<>>, FALSE, <<>>, <<UnavailableNote>>))>>)
      /\ (pc[c] # "Unauthorized" => outcome[c] = <<>>)

\* An unavailable store answered with the unauthorized snapshot.
C6_Witness ==
  /\ ~available
  /\ pc[1] = "Unauthorized"
  /\ Len(outcome[1]) = 1
  /\ ~outcome[1][1].payload.authorized
  /\ outcome[1][1].payload.note # <<>>

\* A thread is between lock() and unlock() of an update.
InCritical(c, q) == hpc[c][q] \in {"errLocked", "bodyLocked", "noteLocked"}

\* A note query q of call c has appended.
NoteOf(c, q) ==
  IF ~GateOpen(q)
    THEN (IF hpc[c][q] = "skipped" /\ QueryOf(q).note # "" THEN {QueryOf(q).note} ELSE {})
  ELSE IF QueryOf(q).kind = "goals" /\ hpc[c][q] \in {"leave", "done"} /\ ~res[c][q].has
    THEN {GoalsNote}
  ELSE {}

\* C7. Every update of the aggregation state runs under the lock: at most
\* one thread is inside an update and it is the holder of the lock; and no
\* update is lost: once a handler is past its update, the finite value it
\* received is in its section under its key (rounded), its summary keys are
\* in the section, its workout list is the call's, and every appended note
\* is in the notes, up to and including the resolved snapshot.
C7_Serialized ==
  /\ Cardinality({x \in Calls \X QueryNames : InCritical(x[1], x[2])}) <= 1
  /\ \A c \in Calls : \A q \in QueryNames : InCritical(c, q) => lock = <<c, q>>
  /\ \A c \in Calls :
       /\ \A q \in QueryNames :
            /\ hpc[c][q] \in {"leave", "done"} =>
                 /\ \A k \in DOMAIN Contribution(c, q) :
                      /\ k \in DOMAIN sections[c][QueryOf(q).section]
                      /\ sections[c][QueryOf(q).section][k] = Contribution(c, q)[k]
                 /\ (QueryOf(q).kind = "workouts" /\ res[c][q].has) =>
                      workouts[c] = res[c][q].list
            /\ NoteOf(c, q) \subseteq Range(notes[c])
       /\ Len(notes[c]) = Cardinality(UNION {NoteOf(c, q) : q \in QueryNames})
       /\ pc[c] = "Done" =>
            /\ \A q \in QueryNames : \A k \in DOMAIN Contribution(c, q) :
                 /\ QueryOf(q).section \in DOMAIN outcome[c][1].payload.sections
                 /\ k \in DOMAIN outcome[c][1].payload.sections[QueryOf(q).section]
                 /\ outcome[c][1].payload.sections[QueryOf(q).section][k] = Contribution(c, q)[k]
            /\ outcome[c][1].payload.note = notes[c]

\* A snapshot resolved with the values of two queries in one section.
C7_Witness ==
  /\ pc[1] = "Done"
  /\ \E q1, q2 \in QueryNames :
       /\ q1 # q2
       /\ QueryOf(q1).section = QueryOf(q2).section
       /\ q1 \notin syncNil /\ q2 \notin syncNil
       /\ Contribution(1, q1) # EmptyDict
       /\ Contribution(1, q2) # EmptyDict

\* C8. Order independence: when no query reported a genuine error, the
\* sections and the workout list of the resolved snapshot are the ones the
\* platform version and the results the queries received determine, whatever
\* the order in which the completions ran.
C8_OrderIndependent ==
  \A c \in Calls :
    pc[c] = "Done" =>
      /\ outcome[c][1].payload.sections = ExpectedSections(c)
      /\ outcome[c][1].payload.workouts = ExpectedWorkouts(c)
      /\ outcome[c][1].payload.hasWorkouts

\* A snapshot resolved from two asynchronous results, one of them a value
\* and one the workout list or a second value.
C8_Witness ==
  /\ pc[1] = "Done"
  /\ Cardinality(AsyncQueries) = 2
  /\ \A q \in AsyncQueries : res[1][q].has
  /\ \E q \in AsyncQueries : Contribution(1, q) # EmptyDict

\* The notes call c itself has appended.
OwnNotes(c) == UNION {NoteOf(c, q) : q \in QueryNames}

\* C9. Isolation between overlapping calls on one instance: at every
\* moment the sections, workouts, notes and error slot of a call hold only
\* what the completions of that call's own queries delivered; a call
\* rejects only with an error one of its own queries received and only if
\* one of them received a genuine error; and a call that resolves resolves
\* exactly the snapshot its own results determine.
C9_Isolation ==
  \A c \in Calls :
    /\ \A s \in SectionNames : \A k \in DOMAIN sections[c][s] :
         /\ k \in DOMAIN ExpectedSection(c, s)
         /\ sections[c][s][k] = ExpectedSection(c, s)[k]
    /\ workouts[c] \in {<<>>, ExpectedWorkouts(c)}
    /\ Range(notes[c]) \subseteq OwnNotes(c)
    /\ Len(notes[c]) <= Cardinality(OwnNotes(c))
    /\ queryError[c] # NoErr =>
         /\ queryError[c].src[1] = c
         /\ queryError[c] = res[c][queryError[c].src[2]].err
    /\ pc[c] = "AnyFailure" =>
         /\ SomeGenuine(c)
         /\ outcome[c][1].err.src[1] = c
    /\ pc[c] = "Done" =>
         /\ ~SomeGenuine(c)
         /\ outcome[c][1].payload.sections = ExpectedSections(c)
         /\ outcome[c][1].payload.workouts = ExpectedWorkouts(c)
         /\ Range(outcome[c][1].payload.note) = OwnNotes(c)

\* Both calls are in flight: a handler of call 1 has stored its value and a
\* handler of call 2 has recorded its error, neither has left its group.
C9_Witness ==
  /\ pc[1] = "Querying" /\ pc[2] = "Querying"
  /\ \E q \in QueryNames :
       /\ hpc[1][q] = "leave" /\ Contribution(1, q) # EmptyDict
       /\ sections[1][QueryOf(q).section] # EmptyDict
       /\ hpc[2][q] = "leave" /\ queryError[2] # NoErr
       /\ queryError[1] = NoErr
       /\ sections[2][QueryOf(q).section] = EmptyDict

\* The health store has not yet called the completion of query q of call c.
Inflight(c, q) == hpc[c][q] \in {"inflight", "fallback"}

\* Some query of call c is still with the health store. A query is with the
\* store from the moment it is executed until its completion is called and
\* never again, so "every issued query eventually completes" is "again and
\* again no query is with the store", and "some issued query never
\* completes" is "from some moment on a query is with the store".
AnyInflight(c) == \E q \in QueryNames : Inflight(c, q)

\* C10. Termination of the join: if the health store eventually calls the
\* completion of every query the call issued, a call that was invoked
\* eventually resolves or rejects; and if the completion of some issued
\* query is never called, the call never resolves and never rejects.
C10_JoinTermination ==
  /\ ([]<>(~AnyInflight(1))) =>
       ((pc[1] = "CheckingAvailability") ~> (pc[1] \in Terminal /\ Len(outcome[1]) = 1))
  /\ (<>[]AnyInflight(1)) => [](outcome[1] = <<>> /\ pc[1] \notin Terminal)

\* A call that ended after the completion of its sleep query, delivered by
\* the fallback query.
C10_Witness ==
  /\ pc[1] \in Terminal
  /\ Len(outcome[1]) = 1
  /\ "sleep" \in AsyncQueries
  /\ Len(res[1]["sleep"].raw) = 2
  /\ \A q \in AsyncQueries : hpc[1][q] = "done"

(* ------------------------------------------------------------------ *)
(* Platform gating and the shape of the snapshot                       *)
(* ------------------------------------------------------------------ *)

\* The metrics behind an #available gate.
GatedQueries == {q \in QueryNames : QueryOf(q).minIOS > 0}

\* C11. Platform gating: for time in daylight (iOS 17), sleep-apnea events
\* (iOS 18) and atrial-fibrillation burden (iOS 16), on a platform below the
\* minimum version the query is never issued (it never enters the group,
\* is never with the store and receives no completion), its note is
\* recorded once the fan-out has passed the gate and is in the note of the
\* resolved snapshot, and the error slot never holds an error of that
\* metric; on a platform at or above the minimum the query is issued by the
\* fan-out and the note is never recorded.
C11_PlatformGating ==
  \A c \in Calls : \A q \in GatedQueries :
    LET note == QueryOf(q).note
        passed == fanIdx[c] > IndexOf(q) /\ inline[c] # q
    IN /\ iosVersion < QueryOf(q).minIOS =>
            /\ hpc[c][q] \in {"idle", "noteWait", "noteLocked", "skipped"}
            /\ res[c][q] = NilResult
            /\ q \notin Range(errLockLog[c])
            /\ (queryError[c] # NoErr => queryError[c].src # <<c, q>>)
            /\ (passed <=> hpc[c][q] = "skipped")
            /\ (passed => Cardinality({i \in 1..Len(notes[c]) : notes[c][i] = note}) = 1)
            /\ (pc[c] = "Done" => note \in Range(outcome[c][1].payload.note))
            /\ (pc[c] = "AnyFailure" => outcome[c][1].err.src # <<c, q>>)
       /\ iosVersion >= QueryOf(q).minIOS =>
            /\ note \notin Range(notes[c])
            /\ hpc[c][q] \notin {"noteWait", "noteLocked", "skipped"}
            /\ (passed => hpc[c][q] # "idle")
            /\ (pc[c] \notin {"Idle", "CheckingAvailability", "Unauthorized", "Querying"}
                  => hpc[c][q] = "done")
            /\ (pc[c] = "Done" => note \notin Range(outcome[c][1].payload.note))

\* On iOS 16 a snapshot resolved with the atrial-fibrillation burden and
\* with the notes of the two metrics the platform lacks.
C11_Witness ==
  /\ iosVersion = 16
  /\ pc[1] = "Done"
  /\ res[1]["afib"].has
  /\ "heart" \in DOMAIN outcome[1][1].payload.sections
  /\ "atrialFibrillationBurdenPercent" \in DOMAIN outcome[1][1].payload.sections["heart"]
  /\ Range(outcome[1][1].payload.note) =
       {"timeInDaylight requires iOS 17+", "sleepApneaEvent requires iOS 18+"}

\* C12. In every snapshot resolved on an available store authorized is
\* true, and a section is a key of the snapshot if and only if a key was
\* stored in it during the call (some query of the call contributed a key
\* to it); only the seven section names occur and no section is present
\* with an empty map.
C12_SectionPresence ==
  \A c \in Calls :
    (pc[c] = "Done" /\ available) =>
      LET p == outcome[c][1].payload
      IN /\ p.authorized
         /\ DOMAIN p.sections \subseteq SectionNames
         /\ \A s \in SectionNames :
              /\ s \in DOMAIN p.sections <=>
                   \E q \in QueryNames :
                     QueryOf(q).section = s /\ Contribution(c, q) # EmptyDict
              /\ s \in DOMAIN p.sections <=> sections[c][s] # EmptyDict
              /\ s \in DOMAIN p.sections => p.sections[s] # EmptyDict

\* A snapshot resolved with one section present while a query of another
\* section received a value that was not stored.
C12_Witness ==
  /\ pc[1] = "Done"
  /\ \E q1, q2 \in AsyncQueries :
       /\ res[1][q1].has /\ Contribution(1, q1) # EmptyDict
       /\ QueryOf(q1).section \in DOMAIN outcome[1][1].payload.sections
       /\ res[1][q2].has /\ QueryOf(q2).kind \in {"cumulative", "latestPercent"}
       /\ Contribution(1, q2) = EmptyDict
       /\ QueryOf(q2).section \notin DOMAIN outcome[1][1].payload.sections

\* A double that is NaN or infinite.
NonFinite(x) == x.t \in {"nan", "inf"}

\* Key k is absent from section s of payload p.
KeyAbsent(p, s, k) == s \notin DOMAIN p.sections \/ k \notin DOMAIN p.sections[s]

\* C13. In every resolved snapshot every numeric leaf is finite, in the
\* sections and in the workout records; and a NaN or infinite value that a
\* query yielded is dropped, its key being absent from the snapshot: the
\* value of a cumulative or latest metric, a value of a merged summary
\* dictionary, and the duration, energy or distance of a workout.
C13_FiniteLeaves ==
  \A c \in Calls :
    pc[c] = "Done" =>
      LET p == outcome[c][1].payload
      IN /\ \A s \in DOMAIN p.sections : \A k \in DOMAIN p.sections[s] :
              ~NonFinite(p.sections[s][k])
         /\ \A i \in 1..Len(p.workouts) : \A k \in DOMAIN p.workouts[i] :
              ~NonFinite(p.workouts[i][k])
         /\ \A q \in QueryNames :
              LET r == res[c][q]
                  kind == QueryOf(q).kind
              IN /\ (kind \in {"cumulative", "latestPercent"} /\ r.has /\ NonFinite(r.val))
                      => KeyAbsent(p, QueryOf(q).section, QueryOf(q).key)
                 /\ (kind \in {"goals", "sleep", "apnea"} /\ r.has) =>
                      \A k \in DOMAIN r.dict :
                        NonFinite(r.dict[k]) => KeyAbsent(p, QueryOf(q).section, k)
                 /\ (kind = "workouts" /\ r.has) =>
                      \A i \in 1..Len(r.raw) :
                        /\ NonFinite(r.raw[i].duration) =>
                             "durationMinutes" \notin DOMAIN p.workouts[i]
                        /\ (r.raw[i].hasEnergy /\ NonFinite(r.raw[i].energy)) =>
                             "totalEnergyKcal" \notin DOMAIN p.workouts[i]
                        /\ (r.raw[i].hasDistance /\ NonFinite(r.raw[i].distance)) =>
                             "totalDistanceKm" \notin DOMAIN p.workouts[i]

(* ------------------------------------------------------------------ *)
(* The sleep query                                                      *)
(* ------------------------------------------------------------------ *)

\* The minutes asleep that the samples give.
AsleepMinutes(samples) == BucketMinutes(samples, "asleep")

\* The clusters of the given samples that hold a minute asleep.
UsableClusters(samples) ==
  {i \in 1..Len(clusterSleepSamples(samples)) :
     AsleepMinutes(clusterSleepSamples(samples)[i]) > 0}

\* The greatest element of a non-empty set of numbers.
MaxOf(S) == CHOOSE m \in S : \A x \in S : x <= m

\* The sleep query of call c has called its completion without an error;
\* primary tells which of the two result handlers did.
SleepAnswered(c, primary) ==
  /\ Delivered(c, "sleep")
  /\ res[c]["sleep"].err = NoErr
  /\ Len(res[c]["sleep"].raw) = (IF primary THEN 1 ELSE 2)

\* C14. The fallback lookup picks the most recent usable block: when the
\* 36-hour window gave no summary, the completion receives the summary of
\* the latest cluster of the 365-day samples whose own samples give a minute
\* asleep (every later cluster gives none), built from that cluster alone
\* and tagged sleepScoreSource "latestAvailable", sleepScoreFallbackUsed
\* true; a summary of the 36-hour window is tagged "today" and false.
C14_FallbackMostRecent ==
  \A c \in Calls :
    LET r == res[c]["sleep"]
    IN /\ SleepAnswered(c, TRUE) =>
            /\ r.has
            /\ r.dict["sleepScoreSource"] = Str("today")
            /\ r.dict["sleepScoreFallbackUsed"] = Bool(FALSE)
       /\ (SleepAnswered(c, FALSE) /\ UsableClusters(r.raw[2]) # {}) =>
            LET clusters == clusterSleepSamples(r.raw[2])
                m == MaxOf(UsableClusters(r.raw[2]))
                cluster == clusters[m]
            IN /\ ~PrimarySummary(r.raw[1]).has
               /\ \A j \in (m + 1)..Len(clusters) : AsleepMinutes(clusters[j]) = 0
               /\ r.has
               /\ r.dict["sleepScoreSource"] = Str("latestAvailable")
               /\ r.dict["sleepScoreFallbackUsed"] = Bool(TRUE)
               /\ r.dict["asleepMinutesLast36h"] = Num(1000 * AsleepMinutes(cluster))
               /\ r.dict["sampleCountLast36h"] = Num(1000 * Len(cluster))
               /\ r.dict["sleepScoreWindowStart"] = isoString(cluster[1].startDate)
               /\ r.dict["sleepScoreWindowEnd"] = isoString(cluster[Len(cluster)].endDate)
               /\ (pc[c] = "Done" =>
                     /\ "sleep" \in DOMAIN outcome[c][1].payload.sections
                     /\ \A k \in SleepSummaryKeys :
                          outcome[c][1].payload.sections["sleep"][k] = r.dict[k])

\* A snapshot resolved with the summary of an older night: the fallback
\* passed over two later clusters without sleep, and an earlier cluster
\* with sleep was not taken.
C14_Witness ==
  /\ pc[1] = "Done"
  /\ SleepAnswered(1, FALSE)
  /\ Cardinality(UsableClusters(res[1]["sleep"].raw[2])) = 2
  /\ MaxOf(UsableClusters(res[1]["sleep"].raw[2])) + 2
       = Len(clusterSleepSamples(res[1]["sleep"].raw[2]))
  /\ "sleep" \in DOMAIN outcome[1][1].payload.sections
  /\ outcome[1][1].payload.sections["sleep"]["sleepScoreSource"] = Str("latestAvailable")

C16_NoSummary ==
  \A c \in Calls :
    LET r == res[c]["sleep"]
    IN (SleepAnswered(c, FALSE) /\ UsableClusters(r.raw[2]) = {}) =>
         /\ AsleepMinutes(r.raw[1]) <= 0
         /\ ~r.has
         /\ SleepSummaryKeys \cap DOMAIN sections[c]["sleep"] = {}
         /\ "sleep" \notin Range(errLockLog[c])
         /\ (queryError[c] # NoErr => queryError[c].src # <<c, "sleep">>)
         /\ (pc[c] \in Terminal /\ ~SomeGenuine(c)) =>
              /\ pc[c] = "Done"
              /\ outcome[c][1].kind = "resolve"
              /\ \A k \in SleepSummaryKeys : KeyAbsent(outcome[c][1].payload, "sleep", k)

\* A snapshot resolved with the value of another query and without sleep
\* keys, after the fallback found time in bed only.
C16_Witness ==
  /\ pc[1] = "Done"
  /\ SleepAnswered(1, FALSE)
  /\ res[1]["sleep"].raw[2] # <<>>
  /\ UsableClusters(res[1]["sleep"].raw[2]) = {}
  /\ outcome[1][1].payload.sections # <<>>
  /\ KeyAbsent(outcome[1][1].payload, "sleep", "sleepScore")

(* ------------------------------------------------------------------ *)
(* The helper functions on their own                                   *)
(* ------------------------------------------------------------------ *)

\* The longest sample list handed to clusterSleepSamples.
MaxSamples == 3

\* The minute arguments of estimateSleepScore go up to 360 * MaxScoreSteps.
MaxScoreSteps == 4

\* The greatest event count handed to apneaRiskLevel.
MaxEvents == 4

\* Sequences over S of length at most n.
SeqUpTo(S, n) == UNION {[1..k -> S] : k \in 0..n}

\* Minutes around the points where the score formula bends and rounds.
ScoreMinutes == {0, 1, 89, 450, 451} \cup {360 * i : i \in 1..MaxScoreSteps}

\* Dates around a gap of exactly the tolerance (60 to 180) and one minute
\* more (60 to 181).
ClusterDates == {0, 60, 180, 181, 400}

\* Samples that touch, overlap, nest and repeat.
ClusterSamples ==
  {x \in {Sample(SleepAsleepUnspecified, s, e) : s, e \in ClusterDates} :
     x.startDate <= x.endDate}

\* Apnea events of 0, 19, 20 and 10 minutes.
ApneaEvents == {Sample(1, 0, 0), Sample(1, 0, 19), Sample(1, 0, 20), Sample(1, 100, 110)}

\* Total minutes (in thousandths) around the threshold of 20.
ApneaTotals == {0, 19000, 19999, 20000, 20001, 60000}

\* Doubles handed to round: not finite, zero, halves of the last kept digit
\* on both sides of zero, values that are already round, and the greatest
\* finite doubles.
RoundValues ==
  {NaN, Infinity, NegInfinity, Huge, Num(-DoubleMax), Num(DoubleMax \div 100 + 1)}
  \cup {Num(v) : v \in {0, 4, 5, -5, 15, -15, 49, 50, -50, 499, 500, -500, 970,
                        1000, 1500, -1500, 97004, 97005, 8342000}}

\* Percentages in tenths of a percent: 0.1, 0.5, 0.9, 1, 1.1, 1.5, 50, 95.5,
\* 97 and 100.
PercentTenths == {1, 5, 9, 10, 11, 15, 500, 955, 970, 1000}

\* The latest reading of a percentage of p tenths, as the fraction p / 100
\* or as the scaled number p.
Reading(form, tenths) == IF form = "fraction" THEN Num(tenths) ELSE Num(100 * tenths)

\* Math.trunc in place of Math.round.
MathRoundTrunc(x, unit) == IF x >= 0 THEN (x \div unit) * unit ELSE -(((-x) \div unit) * unit)

\* Math.round on hundredths, to a multiple of `unit` hundredths: the nearest,
\* a half towards plus infinity.
MathRound(x, unit) == ((x + unit \div 2) \div unit) * unit

\* clamp(value, min, max): Math.min(Math.max(value, min), max)
clamp(value, min, max) ==
  LET raised == IF value > min THEN value ELSE min
  IN IF raised < max THEN raised ELSE max

\* The sleepScore of buildMockSleepData from its stage totals (qualityBase
\* in hundredths).
buildMockSleepScore(asleepMinutesLast36h, awakeMinutesLast36h, asleepDeepMinutes, asleepREMMinutes) ==
  LET dist == IF asleepMinutesLast36h >= 450 THEN asleepMinutesLast36h - 450
              ELSE 450 - asleepMinutesLast36h
      qualityBase == 9500 - dist * 8 - awakeMinutesLast36h * 45
                     + asleepDeepMinutes * 3 + asleepREMMinutes * 2
  IN MathRound(clamp(qualityBase, 4500, 9800), 100) \div 100

\* The longest sample list handed to buildSleepSummary.
MaxStageSamples == 3

\* Sleep samples of every stage value and of a value without a stage (9),
\* each stage with a duration of its own, and samples that end when or
\* before they start.
StageSamples ==
  {Sample(SleepInBed, 0, 30), Sample(SleepAsleepUnspecified, 30, 50),
   Sample(SleepAwake, 50, 57), Sample(SleepAsleepCore, 60, 160),
   Sample(SleepAsleepDeep, 160, 205), Sample(SleepAsleepREM, 205, 230),
   Sample(9, 230, 243), Sample(SleepAsleepUnspecified, 300, 300),
   Sample(SleepAsleepDeep, 400, 350), Sample(SleepInBed, 400, 399)}

\* A sleep sample as the screen receives it: the stage name and the dates.
UISample(stage, start, end) == [stage |-> stage, startDate |-> start, endDate |-> end]

ASLEEP_STAGES == {"asleepUnspecified", "asleepCore", "asleepDeep", "asleepREM"}

\* The map of normalizeSleepSegments: durationMinutes is
\* Math.max((end - start) / (1000 * 60), 0).
Segment(sample) ==
  [stage |-> sample.stage, startDate |-> sample.startDate, endDate |-> sample.endDate,
   durationMinutes |-> IF sample.endDate > sample.startDate
                       THEN sample.endDate - sample.startDate ELSE 0]

\* normalizeSleepSegments: map, filter(durationMinutes > 0), and a sort by
\* the start date alone that keeps the order of segments with equal starts.
normalizeSleepSegments(samples) ==
  SortSamples(SelectSeq([i \in 1..Len(samples) |-> Segment(samples[i])],
                        LAMBDA segment : segment.durationMinutes > 0),
              "start")

\* const maxGapMinutes = 45
maxGapMinutes == 45

\* The block pushed for a segment that starts a block.
NewBlock(segment) ==
  [startDate |-> segment.startDate, endDate |-> segment.endDate,
   asleepMinutes |-> IF segment.stage \in ASLEEP_STAGES THEN segment.durationMinutes ELSE 0,
   awakeMinutes |-> IF segment.stage = "awake" THEN segment.durationMinutes ELSE 0,
   inBedMinutes |-> IF segment.stage = "inBed" THEN segment.durationMinutes ELSE 0,
   totalMinutes |-> segment.durationMinutes]

\* The last block after a segment was merged into it.
MergedBlock(last, segment) ==
  [startDate |-> last.startDate, endDate |-> segment.endDate,
   asleepMinutes |-> last.asleepMinutes + NewBlock(segment).asleepMinutes,
   awakeMinutes |-> last.awakeMinutes + NewBlock(segment).awakeMinutes,
   inBedMinutes |-> last.inBedMinutes + NewBlock(segment).inBedMinutes,
   totalMinutes |-> last.totalMinutes + segment.durationMinutes]

\* segments.forEach of buildSleepBlocks.
RECURSIVE BlocksLoop(_, _)
BlocksLoop(rest, blocks) ==
  IF rest = <<>> THEN blocks
  ELSE LET segment == Head(rest)
       IN IF blocks = <<>>
            THEN BlocksLoop(Tail(rest), <<NewBlock(segment)>>)
          ELSE IF segment.startDate - blocks[Len(blocks)].endDate > maxGapMinutes
            THEN BlocksLoop(Tail(rest), Append(blocks, NewBlock(segment)))
          ELSE BlocksLoop(Tail(rest),
                          [blocks EXCEPT ![Len(blocks)] = MergedBlock(@, segment)])

buildSleepBlocks(segments) == BlocksLoop(segments, <<>>)

\* The compare function of chooseMainSleepBlock is negative: a sorts
\* before b.
RankedBefore(a, b) ==
  IF b.asleepMinutes - a.asleepMinutes # 0 THEN b.asleepMinutes - a.asleepMinutes < 0
  ELSE b.endDate - a.endDate < 0

\* Array.prototype.sort with that compare function, keeping the order of
\* blocks it does not tell apart.
RECURSIVE InsertRanked(_, _)
InsertRanked(sorted, block) ==
  IF sorted = <<>> THEN <<block>>
  ELSE IF RankedBefore(block, sorted[Len(sorted)])
    THEN Append(InsertRanked(SubSeq(sorted, 1, Len(sorted) - 1), block), sorted[Len(sorted)])
  ELSE Append(sorted, block)

RECURSIVE SortRanked(_)
SortRanked(blocks) ==
  IF blocks = <<>> THEN <<>>
  ELSE InsertRanked(SortRanked(SubSeq(blocks, 1, Len(blocks) - 1)), blocks[Len(blocks)])

\* A sort of the array itself: blocks.sort(...)
SortedInPlace(blocks, ranked) == ranked

\* The array `blocks` after [...blocks].sort(...): the copy was sorted.
SortedCopy(blocks, ranked) == blocks

\* chooseMainSleepBlock: what it returns (has: not null) and the array it
\* was given, as the caller finds it afterwards.
chooseMainSleepBlock(blocks) ==
  IF blocks = <<>> THEN [has |-> FALSE, block |-> <<>>, blocks |-> blocks]
  ELSE LET ranked == SortRanked(blocks)
           after == SortedCopy(blocks, ranked)
       IN [has |-> TRUE,
           block |-> IF ranked[1].asleepMinutes >= 90 THEN ranked[1] ELSE after[Len(after)],
           blocks |-> after]

\* The longest sample list handed to normalizeSleepSegments and the
\* longest block list handed to chooseMainSleepBlock.
MaxBlockSamples == 3

\* Samples that start together, nest, lie 45 and 50 minutes after an end,
\* and last no time or less.
BlockSamples ==
  {UISample("asleepCore", d[1], d[2]) :
     d \in {<<0, 100>>, <<0, 10>>, <<55, 70>>, <<60, 70>>, <<150, 150>>, <<160, 155>>}}
  \cup {UISample("awake", 0, 10), UISample("awake", 55, 70), UISample("unknown", 60, 70),
        UISample("inBed", 0, 100)}

\* Blocks with 0, 89, 90 and 120 minutes asleep that end at three dates.
ChoiceBlocks ==
  {[startDate |-> 0, endDate |-> e, asleepMinutes |-> a, awakeMinutes |-> 0,
    inBedMinutes |-> 0, totalMinutes |-> a + 5] :
     e \in {100, 200, 300}, a \in {0, 89, 90, 120}}

\* The evaluations of the helper functions that are examined.
FnCalls ==
  {[fn |-> "estimateSleepScore", asleepMinutes |-> a, awakeMinutes |-> w,
    deepMinutes |-> d, remMinutes |-> r] : a, w, d, r \in ScoreMinutes}
  \cup {[fn |-> "clusterSleepSamples", samples |-> l] : l \in SeqUpTo(ClusterSamples, MaxSamples)}
  \cup {[fn |-> "apneaRiskLevel", eventCount |-> n, totalMinutes |-> m] :
          n \in 0..MaxEvents, m \in ApneaTotals}
  \cup {[fn |-> "apneaSummary", samples |-> l] : l \in SeqUpTo(ApneaEvents, 3)}
  \cup {[fn |-> "apneaReminderText", riskLevel |-> l, eventCount |-> n] :
          l \in {"none", "watch", "high"}, n \in 0..MaxEvents}
  \cup {[fn |-> "round", value |-> x, digits |-> d] : x \in RoundValues, d \in Digits}
  \cup {[fn |-> "buildMockSleepData", asleepMinutes |-> a, awakeMinutes |-> w,
          deepMinutes |-> d, remMinutes |-> r] : a, w, d, r \in ScoreMinutes}
  \cup {[fn |-> "buildSleepSummary", samples |-> l] :
          l \in SeqUpTo(StageSamples, MaxStageSamples)}
  \cup {[fn |-> "buildSleepBlocks", samples |-> l] :
          l \in SeqUpTo(BlockSamples, MaxBlockSamples)}
  \cup {[fn |-> "chooseMainSleepBlock", blocks |-> l] :
          l \in SeqUpTo(ChoiceBlocks, MaxBlockSamples)}
  \cup {[fn |-> "storeQuantity", query |-> q, form |-> f, tenths |-> k,
         value |-> Reading(f, k)] :
          q \in {"afib", "bloodOxygen"}, f \in {"fraction", "scaled"}, k \in PercentTenths}
  \cup {[fn |-> "storeQuantity", query |-> "stepsToday", form |-> "count", tenths |-> 0,
         value |-> Num(8342000)]}

Returned(v) == [done |-> TRUE, v |-> v]

EvalEstimateSleepScore ==
  /\ call.fn = "estimateSleepScore"
  /\ ~ret.done
  /\ ret' = Returned(estimateSleepScore(call.asleepMinutes, call.awakeMinutes,
                                        call.deepMinutes, call.remMinutes))
  /\ UNCHANGED <<iosVersion, available, syncNil, call, appVars, lock, callVars, aggVars,
                 handlerVars>>

EvalClusterSleepSamples ==
  /\ call.fn = "clusterSleepSamples"
  /\ ~ret.done
  /\ ret' = Returned(clusterSleepSamples(call.samples))
  /\ UNCHANGED <<iosVersion, available, syncNil, call, appVars, lock, callVars, aggVars,
                 handlerVars>>

EvalApneaRiskLevel ==
  /\ call.fn = "apneaRiskLevel"
  /\ ~ret.done
  /\ ret' = Returned(apneaRiskLevel(call.eventCount, call.totalMinutes))
  /\ UNCHANGED <<iosVersion, available, syncNil, call, appVars, lock, callVars, aggVars,
                 handlerVars>>

EvalApneaSummary ==
  /\ call.fn = "apneaSummary"
  /\ ~ret.done
  /\ ret' = Returned(ApneaSummary(call.samples))
  /\ UNCHANGED <<iosVersion, available, syncNil, call, appVars, lock, callVars, aggVars,
                 handlerVars>>

EvalApneaReminderText ==
  /\ call.fn = "apneaReminderText"
  /\ ~ret.done
  /\ ret' = Returned(apneaReminderText(call.riskLevel, call.eventCount))
  /\ UNCHANGED <<iosVersion, available, syncNil, call, appVars, lock, callVars, aggVars,
                 handlerVars>>

EvalRound ==
  /\ call.fn = "round"
  /\ ~ret.done
  /\ ret' = Returned(roundDigits(call.value, call.digits))
  /\ UNCHANGED <<iosVersion, available, syncNil, call, appVars, lock, callVars, aggVars,
                 handlerVars>>

\* The completion of runLatestQuantity or runTodayCumulative with a value,
\* on an empty section: setSectionValue drops a non-finite output.
EvalStoreQuantity ==
  /\ call.fn = "storeQuantity"
  /\ ~ret.done
  /\ LET out == IF QueryOf(call.query).kind = "latestPercent"
                THEN percentTransform(call.value) ELSE call.value
     IN ret' = Returned(IF isFinite(out)
                        THEN NewDict(call.query, EmptyDict, ValResult(call.value))
                        ELSE EmptyDict)
  /\ UNCHANGED <<iosVersion, available, syncNil, call, appVars, lock, callVars, aggVars,
                 handlerVars>>

\* The score buildMockSleepData computes once its stage totals are summed.
EvalBuildMockSleepData ==
  /\ call.fn = "buildMockSleepData"
  /\ ~ret.done
  /\ ret' = Returned(buildMockSleepScore(call.asleepMinutes, call.awakeMinutes,
                                         call.deepMinutes, call.remMinutes))
  /\ UNCHANGED <<iosVersion, available, syncNil, call, appVars, lock, callVars, aggVars,
                 handlerVars>>

EvalBuildSleepSummary ==
  /\ call.fn = "buildSleepSummary"
  /\ ~ret.done
  /\ ret' = Returned(buildSleepSummary(call.samples, WindowStart, Now, "today"))
  /\ UNCHANGED <<iosVersion, available, syncNil, call, appVars, lock, callVars, aggVars,
                 handlerVars>>

\* buildSleepBlocks(normalizeSleepSegments(samples))
EvalBuildSleepBlocks ==
  /\ call.fn = "buildSleepBlocks"
  /\ ~ret.done
  /\ ret' = Returned(buildSleepBlocks(normalizeSleepSegments(call.samples)))
  /\ UNCHANGED <<iosVersion, available, syncNil, call, appVars, lock, callVars, aggVars,
                 handlerVars>>

EvalChooseMainSleepBlock ==
  /\ call.fn = "chooseMainSleepBlock"
  /\ ~ret.done
  /\ ret' = Returned(chooseMainSleepBlock(call.blocks))
  /\ UNCHANGED <<iosVersion, available, syncNil, call, appVars, lock, callVars, aggVars,
                 handlerVars>>

\* One evaluation of one helper function: buildSleepSummary on every
\* platform version, the others on the newest.
InitFn ==
  /\ call \in FnCalls
  /\ iosVersion \in (IF call.fn = "buildSleepSummary" THEN IOSVersions ELSE {18})
  /\ available = TRUE
  /\ syncNil = {}
  /\ InitCalls
  /\ ret = NoRet
  /\ InitApp({"ios"}, {TRUE})

NextFn ==
  \/ EvalEstimateSleepScore
  \/ EvalClusterSleepSamples
  \/ EvalApneaRiskLevel
  \/ EvalApneaSummary
  \/ EvalApneaReminderText
  \/ EvalRound
  \/ EvalStoreQuantity
  \/ EvalBuildMockSleepData
  \/ EvalBuildSleepSummary
  \/ EvalBuildSleepBlocks
  \/ EvalChooseMainSleepBlock

SpecFn == InitFn /\ [][NextFn]_vars

\* The helper function fn has returned.
Evaluated(fn) == call.fn = fn /\ ret.done

\* C17. Sleep score bounds: for all non-negative asleep, awake, deep and
\* REM minutes estimateSleepScore returns a whole number between 45 and 98.
C17_ScoreBounds ==
  Evaluated("estimateSleepScore") => (ret.v \in Int /\ 45 <= ret.v /\ ret.v <= 98)

\* The score of a night without sleep and with time awake: the formula
\* gives less than 45 and the score is 45.
C17_Witness ==
  /\ Evaluated("estimateSleepScore")
  /\ call.asleepMinutes = 0 /\ call.awakeMinutes >= 360
  /\ ret.v = 45

\* The clusters one after the other.
RECURSIVE Flatten(_)
Flatten(clusters) == IF clusters = <<>> THEN <<>> ELSE Head(clusters) \o Flatten(Tail(clusters))

\* How often x occurs in the sequence.
Occurrences(x, seq) == Cardinality({i \in 1..Len(seq) : seq[i] = x})

\* C18. Clustering partitions its input: every input sample is in exactly
\* one cluster exactly once (the clusters, one after the other, hold every
\* sample as often as the input does), no cluster is empty, inside a cluster
\* the start of a sample minus the end of the sample before it is at most
\* 120 minutes, and the start of the first sample of a cluster minus the end
\* of the last sample of the cluster before it is more than 120 minutes; no
\* samples give no clusters and one sample gives one cluster of one sample.
C18_Partition ==
  Evaluated("clusterSleepSamples") =>
    LET clusters == ret.v
        flat == Flatten(ret.v)
    IN /\ Len(flat) = Len(call.samples)
       /\ \A i \in 1..Len(call.samples) :
            Occurrences(call.samples[i], flat) = Occurrences(call.samples[i], call.samples)
       /\ \A i \in 1..Len(clusters) :
            /\ clusters[i] # <<>>
            /\ \A j \in 2..Len(clusters[i]) :
                 clusters[i][j].startDate - clusters[i][j - 1].endDate <= 120
            /\ i > 1 =>
                 clusters[i][1].startDate
                   - clusters[i - 1][Len(clusters[i - 1])].endDate > 120
       /\ (call.samples = <<>> => clusters = <<>>)
       /\ (Len(call.samples) = 1 => clusters = << call.samples >>)

\* Three samples, one of them twice in the input, in two clusters.
C18_Witness ==
  /\ Evaluated("clusterSleepSamples")
  /\ Len(call.samples) = 3
  /\ call.samples[1] = call.samples[3]
  /\ Len(ret.v) = 2

\* The latest end and the earliest start of the samples of a cluster.
LatestEnd(cluster) ==
  CHOOSE e \in {cluster[i].endDate : i \in 1..Len(cluster)} :
    \A i \in 1..Len(cluster) : cluster[i].endDate <= e

EarliestStart(cluster) ==
  CHOOSE s \in {cluster[i].startDate : i \in 1..Len(cluster)} :
    \A i \in 1..Len(cluster) : s <= cluster[i].startDate

\* C19. The clusters of clusterSleepSamples are ordered in time and do not
\* overlap: for any input, samples that overlap or nest included, the
\* latest end of the samples of a cluster is not later than the earliest
\* start of the samples of the next cluster.
C19_ClustersDisjoint ==
  Evaluated("clusterSleepSamples") =>
    \A i \in 1..(Len(ret.v) - 1) : LatestEnd(ret.v[i]) <= EarliestStart(ret.v[i + 1])

\* The classification as the claim states it.
ClaimedRisk(eventCount, totalMinutes) ==
  IF eventCount = 0 THEN "none"
  ELSE IF 1 <= eventCount /\ eventCount <= 2 /\ totalMinutes < 20000 THEN "watch"
  ELSE "high"

\* C20. Apnea risk classification: for every event count and total of
\* minutes from 0 on, apneaRiskLevel is "none" if and only if the count is
\* 0, "watch" if and only if the count is 1 or 2 and the total is below 20
\* minutes, and "high" otherwise; and the riskLevel of an apnea summary is
\* that classification of its own event count and total, so that summaries
\* with the same pair have the same riskLevel.
C20_ApneaRisk ==
  /\ Evaluated("apneaRiskLevel") =>
       /\ ret.v = ClaimedRisk(call.eventCount, call.totalMinutes)
       /\ (ret.v = "none" <=> call.eventCount = 0)
       /\ (ret.v = "watch" <=>
             (1 <= call.eventCount /\ call.eventCount <= 2 /\ call.totalMinutes < 20000))
  /\ Evaluated("apneaSummary") =>
       /\ ret.v["apnea"].d["riskLevel"] =
            Str(ClaimedRisk(Len(call.samples), ApneaMinutes(call.samples)))
       /\ ret.v["apnea"].d["eventCountLast30d"] = Num(1000 * Len(call.samples))

\* One event and a total of exactly 20 minutes: "high", as a number and as
\* a summary.
C20_Witness ==
  \/ /\ Evaluated("apneaRiskLevel")
     /\ call.eventCount = 1 /\ call.totalMinutes = 20000
     /\ ret.v = "high"
  \/ /\ Evaluated("apneaSummary")
     /\ Len(call.samples) = 1 /\ ApneaMinutes(call.samples) = 20000
     /\ ret.v["apnea"].d["riskLevel"] = Str("high")

\* C21. Every reminder text of the native module, for each of the three
\* risk levels and every event count, alone and as the reminder of an apnea
\* summary, states that the tool is not a substitute for a medical
\* diagnosis.
C21_ReminderDisclaimer ==
  /\ Evaluated("apneaReminderText") => "notADiagnosis" \in ReminderStatements(ret.v)
  /\ Evaluated("apneaSummary") =>
       "notADiagnosis" \in ReminderStatements(ret.v["apnea"].d["reminder"])

\* x is y rounded half away from zero to a multiple of unit.
IsRoundedHalfAway(x, y, unit) ==
  /\ x % unit = 0
  /\ 2 * (IF x >= y THEN x - y ELSE y - x) <= unit
  /\ 2 * (IF x >= y THEN x - y ELSE y - x) = unit => (IF y >= 0 THEN x > y ELSE x < y)

\* C22. Rounding is idempotent and always finite: for every double x and
\* digit count d from 0 on, round(x, d) is finite; it is 0 when x is NaN or
\* an infinity; for a finite x it is x rounded half away from zero to d
\* decimals; and round(round(x, d), d) = round(x, d).
C22_RoundIdempotentFinite ==
  Evaluated("round") =>
    /\ isFinite(ret.v)
    /\ (~isFinite(call.value) => ret.v = Num(0))
    /\ (isFinite(call.value) =>
          IsRoundedHalfAway(ret.v.v, call.value.v, pow10(3 - call.digits)))
    /\ roundDigits(ret.v, call.digits) = ret.v

\* The stored value of the evaluated store is p rounded to two decimals for
\* a percent metric, and the count itself for the step count.
StoredAsPercent ==
  IF call.form = "count"
    THEN ret.v = [k \in {"stepsToday"} |-> call.value]
    ELSE ret.v = [k \in {QueryOf(call.query).key} |-> Num(100 * call.tenths)]

\* Percent normalization is scale-invariant for every percentage p with
\* 0 < p <= 100: the fraction p / 100 and the scaled number p are both stored
\* as p rounded to two decimals, and stepsToday = 8342 is stored unchanged.
C23_ScaleInvariant == Evaluated("storeQuantity") => StoredAsPercent

\* C23. Percent normalization is scale-invariant above one percent: for the
\* oxygen saturation and the atrial fibrillation burden and every percentage
\* p with 1 < p <= 100, a latest reading in fraction form (p / 100) and one in
\* scaled form (p) are both stored under the key of the metric as p rounded
\* to two decimals, while stepsToday = 8342 is stored unchanged.
C23_ScaleInvariantAboveOne ==
  Evaluated("storeQuantity") /\ (call.form = "count" \/ call.tenths > 10) => StoredAsPercent

\* The fraction 0.97 stored as bloodOxygenPercent 97.00.
C23_Witness ==
  /\ Evaluated("storeQuantity")
  /\ call.query = "bloodOxygen" /\ call.form = "fraction" /\ call.value = Num(970)
  /\ ret.v = [k \in {"bloodOxygenPercent"} |-> Num(97000)]

\* round(clamp(95 - |asleep - 450| * 0.08 - awake * 0.45 + deep * 0.03
\* + rem * 0.02, 45, 98)): the whole number nearest to the clamped value,
\* which lies between 45 and 98.
ClaimedScore(asleep, awake, deep, rem) ==
  LET base == 9500 - (IF asleep >= 450 THEN asleep - 450 ELSE 450 - asleep) * 8
              - awake * 45 + deep * 3 + rem * 2
      clamped == IF base < 4500 THEN 4500 ELSE IF base > 9800 THEN 9800 ELSE base
  IN CHOOSE n \in 45..98 : 100 * n - 50 <= clamped /\ clamped < 100 * n + 50

\* C24. Sleep score parity: for every combination of asleep, awake, deep
\* and REM minutes the native estimateSleepScore and the mock sleep builder
\* compute the same score, and both equal round(clamp(95 - |asleep - 450| *
\* 0.08 - awake * 0.45 + deep * 0.03 + rem * 0.02, 45, 98)).
C24_ScoreParity ==
  /\ Evaluated("buildMockSleepData") =>
       /\ ret.v = estimateSleepScore(call.asleepMinutes, call.awakeMinutes,
                                     call.deepMinutes, call.remMinutes)
       /\ ret.v = ClaimedScore(call.asleepMinutes, call.awakeMinutes,
                               call.deepMinutes, call.remMinutes)
  /\ Evaluated("estimateSleepScore") =>
       /\ ret.v = buildMockSleepScore(call.asleepMinutes, call.awakeMinutes,
                                      call.deepMinutes, call.remMinutes)
       /\ ret.v = ClaimedScore(call.asleepMinutes, call.awakeMinutes,
                               call.deepMinutes, call.remMinutes)

\* The mock builder on a clamped value of exactly 94.5: the score is 95.
C24_Witness ==
  /\ Evaluated("buildMockSleepData")
  /\ call.asleepMinutes = 451 /\ call.awakeMinutes = 1
  /\ call.deepMinutes = 1 /\ call.remMinutes = 0
  /\ ret.v = 95

\* The minutes of the samples that last longer than nothing and whose value
\* has a stage name.
RECURSIVE CountedMinutes(_)
CountedMinutes(samples) ==
  IF samples = <<>> THEN 0
  ELSE (IF Head(samples).endDate > Head(samples).startDate
           /\ sleepStageName(Head(samples).value) # "unknown"
          THEN Head(samples).endDate - Head(samples).startDate ELSE 0)
       + CountedMinutes(Tail(samples))

\* C25. Stage totals are consistent on every platform version: in each
\* summary of buildSleepSummary the asleep total, used for
\* asleepMinutesLast36h and for the sleep score, is the sum of the
\* asleepUnspecified, asleepCore, asleepDeep and asleepREM stage totals, the
\* awake total is the awake stage total, the in-bed total is the inBed stage
\* total, and samples with end <= start or with a value of stage "unknown"
\* add to no total: the three totals together are the minutes of the other
\* samples.
C25_StageTotals ==
  Evaluated("buildSleepSummary") /\ ret.v.has =>
    LET d == ret.v.dict
        st == d["stageMinutesLast36h"].d
        asleep == st["asleepUnspecified"].v + st["asleepCore"].v
                  + st["asleepDeep"].v + st["asleepREM"].v
    IN /\ d["asleepMinutesLast36h"].v = asleep
       /\ d["awakeMinutesLast36h"].v = st["awake"].v
       /\ d["inBedMinutesLast36h"].v = st["inBed"].v
       /\ d["sleepScore"].v =
            1000 * estimateSleepScore(asleep \div 1000, st["awake"].v \div 1000,
                                      st["asleepDeep"].v \div 1000,
                                      st["asleepREM"].v \div 1000)
       /\ asleep + st["awake"].v + st["inBed"].v = 1000 * CountedMinutes(call.samples)

\* Before iOS 16: a summary of a list with time asleep, a sample of the
\* value awake, and a sample that ends before it starts.
C25_Witness ==
  /\ Evaluated("buildSleepSummary") /\ ret.v.has
  /\ iosVersion = 15
  /\ \E i \in 1..Len(call.samples) :
       call.samples[i].value = SleepAwake /\ Duration(call.samples[i]) > 0
  /\ \E i \in 1..Len(call.samples) : Duration(call.samples[i]) < 0

(* ------------------------------------------------------------------ *)
(* The accounting of the dispatch group                                *)
(* ------------------------------------------------------------------ *)

\* Query q of call c has been started: its gate is open and the fan-out
\* has reached it.
Started(c, q) == GateOpen(q) /\ hpc[c][q] \notin {"idle", "skipped"}

\* The queries of call c that have entered the group and not left it.
EnteredNotLeft(c) == {q \in QueryNames : Pending(c, q)}

\* C26. Balanced join accounting: every query getHealthSnapshot starts
\* enters the dispatch group exactly once, before the notify block is
\* installed, and leaves it exactly once on every path (a guard that fails,
\* a provider error, an empty result, a success, the hand-off of the sleep
\* query to the 365-day query): the count of the group is the number of
\* queries that entered and have not left, it is never negative, it never
\* grows once notify is installed, a query that has left never comes back,
\* and once notify is installed the count is zero exactly when every query
\* of the call has completed.
C26_BalancedJoin ==
  /\ [](\A c \in Calls :
          /\ group[c] >= 0
          /\ group[c] = Cardinality(EnteredNotLeft(c))
          /\ notify[c] => \A q \in QueryNames : GateOpen(q) => Started(c, q)
          /\ notify[c] =>
               (group[c] = 0 <=> \A q \in QueryNames : hpc[c][q] \in {"done", "skipped"}))
  /\ [][\A c \in Calls :
          /\ notify[c] => group'[c] <= group[c]
          /\ \A q \in QueryNames :
               /\ hpc[c][q] = "done" => hpc'[c][q] = "done"
               /\ (Pending(c, q) /\ ~Pending(c, q)') =>
                    (hpc'[c][q] = "done" /\ group'[c] = group[c] - 1)
               /\ (~Started(c, q) /\ Pending(c, q)') => group'[c] = group[c] + 1]_vars

\* A call whose group is back at zero after a query whose guard failed, a
\* query that ended with a provider error, and the sleep query answered by
\* the 365-day query.
C26_Witness ==
  /\ notify[1] /\ group[1] = 0
  /\ \E q \in syncNil : hpc[1][q] = "done" /\ ~IsLocal(q)
  /\ \E q \in AsyncQueries : res[1][q].err # NoErr /\ hpc[1][q] = "done"
  /\ Len(res[1]["sleep"].raw) = 2 /\ hpc[1]["sleep"] = "done"

(* ------------------------------------------------------------------ *)
(* The application: syncHealthSnapshot and loadHealthSnapshot          *)
(* ------------------------------------------------------------------ *)

\* The build switches: the auto-sync effects return at once and the upload
\* branch is skipped, so neither the timer nor the foreground listener
\* calls syncHealthSnapshot and no sync awaits an upload.
MUTE_AUTO_HEALTH_SYNC == TRUE
MUTE_HEALTH_SNAPSHOT_POST == TRUE

MockNote == "Mock data generated with HealthKit-aligned units and sleep stage samples"
NoModuleNote == "HealthKit native module is unavailable, fallback to mock data"
NoDataNote == "Health data is unavailable on this device"

\* buildMockSnapshot()
buildMockSnapshot == Snapshot("mock", TRUE, MockNote)

\* What the promise of the native getHealthSnapshot may settle with: a
\* snapshot, with or without a note, or a rejection.
NativeSnapshots ==
  {Resolved(Payload(TRUE, <<>>, TRUE, <<>>, <<>>)),
   Resolved(Payload(TRUE, <<>>, TRUE, <<>>, <<GoalsNote>>)),
   Rejected(MkError("com.apple.healthkit", 4, FALSE, <<0, "">>))}

\* The positions between healthSyncInFlightRef.current = true and the
\* finally block.
InFlightPcs == {"awaitAvailable", "awaitAuthorization", "awaitSnapshot", "loaded", "failed"}

\* The invocations are numbered in the order they are made.
NextSync(i) == syncs[i].pc = "idle" /\ \A j \in 1..(i - 1) : syncs[j].pc # "idle"

\* loadHealthSnapshot(useMock) up to its first await, or to its return.
LoadBegin(sync, useMock) ==
  IF useMock \/ platform # "ios"
    THEN [sync EXCEPT !.pc = "loaded", !.snapshot = buildMockSnapshot]
  ELSE IF ~nativeModule
    THEN [sync EXCEPT !.pc = "loaded",
                      !.snapshot = [buildMockSnapshot EXCEPT !.note = NoModuleNote]]
  ELSE [sync EXCEPT !.pc = "awaitAvailable", !.calls = <<"isHealthDataAvailable">>]

\* if (healthSyncInFlightRef.current) { return null; }
FlagSet == healthSyncInFlightRef

\* syncHealthSnapshot({forceMock, silent, reason}) up to its first await:
\* null without a token or with the flag set; else the flag is set and
\* loadHealthSnapshot starts.
syncHealthSnapshot(i, forceMock, silent, reason) ==
  /\ NextSync(i)
  /\ LET made == [syncs[i] EXCEPT !.forceMock = forceMock, !.silent = silent,
                                  !.reason = reason]
     IN IF ~token \/ FlagSet
          THEN /\ syncs' = [syncs EXCEPT ![i] = [made EXCEPT !.pc = "returned",
                                                              !.result = "null"]]
               /\ UNCHANGED <<healthSyncInFlightRef, healthLoading>>
          ELSE /\ healthSyncInFlightRef' = TRUE
               /\ healthLoading' = IF ~silent THEN TRUE ELSE healthLoading
               /\ syncs' = [syncs EXCEPT ![i] = LoadBegin(made, forceMock)]
  /\ UNCHANGED <<platform, nativeModule, token, healthSnapshot>>
  /\ UNCHANGED <<iosVersion, available, syncNil, call, ret, lock, callVars, aggVars,
                 handlerVars>>

\* onLoadHealthData(useMock), behind a button that is disabled while
\* healthLoading.
onLoadHealthData(i, useMock) ==
  /\ token
  /\ ~healthLoading
  /\ syncHealthSnapshot(i, useMock, FALSE, "manual")

\* ensureFreshHealthSnapshotForChat when the snapshot of the screen is
\* missing or older than the sync interval.
ensureFreshHealthSnapshotForChat(i) ==
  /\ token
  /\ syncHealthSnapshot(i, FALSE, TRUE, "chat")

\* The steps below change the invocation i and nothing else.
OnlySync(i, sync) ==
  /\ syncs' = [syncs EXCEPT ![i] = sync]
  /\ UNCHANGED <<platform, nativeModule, token, healthSyncInFlightRef, healthLoading,
                 healthSnapshot>>
  /\ UNCHANGED <<iosVersion, available, syncNil, call, ret, lock, callVars, aggVars,
                 handlerVars>>

\* const isAvailable = await HealthKitManager.isHealthDataAvailable()
AvailableReturns(i) ==
  /\ syncs[i].pc = "awaitAvailable"
  /\ OnlySync(i,
       IF ~isHealthDataAvailable
         THEN [syncs[i] EXCEPT !.pc = "loaded", !.isAvailable = "false",
                               !.snapshot = Snapshot("mock", FALSE, NoDataNote)]
         ELSE [syncs[i] EXCEPT !.pc = "awaitAuthorization", !.isAvailable = "true",
                               !.calls = Append(@, "requestAuthorization")])

\* A test that lets a refusal pass.
NotAuthorizedNever(authorized) == FALSE

\* if (!authorized)
NotAuthorized(authorized) == authorized # "true"

\* const authorized = await HealthKitManager.requestAuthorization(): the
\* promise resolves true or false, or rejects; a refusal throws.
AuthorizationReturns(i, answer) ==
  /\ syncs[i].pc = "awaitAuthorization"
  /\ OnlySync(i,
       IF answer = "rejected"
         THEN [syncs[i] EXCEPT !.pc = "failed", !.authorized = "rejected",
                               !.error = "healthkit_auth_error"]
       ELSE IF NotAuthorized(answer)
         THEN [syncs[i] EXCEPT !.pc = "failed", !.authorized = answer,
                               !.error = "not authorized"]
       ELSE [syncs[i] EXCEPT !.pc = "awaitSnapshot", !.authorized = answer,
                             !.calls = Append(@, "getHealthSnapshot")])

\* const nativeSnapshot = await HealthKitManager.getHealthSnapshot()
SnapshotReturns(i, native) ==
  /\ syncs[i].pc = "awaitSnapshot"
  /\ OnlySync(i,
       IF native.kind = "resolve"
         THEN [syncs[i] EXCEPT !.pc = "loaded",
                 !.snapshot = Snapshot("healthkit", native.payload.authorized,
                                       IF native.payload.note = <<>> THEN ""
                                       ELSE native.payload.note[1])]
         ELSE [syncs[i] EXCEPT !.pc = "failed", !.error = "healthkit_query_error"])

\* finally { healthSyncInFlightRef.current = false; ... }
Finally(i) ==
  /\ healthSyncInFlightRef' = FALSE
  /\ healthLoading' = IF ~syncs[i].silent THEN FALSE ELSE healthLoading

\* The rest of the try block after loadHealthSnapshot returned: the
\* snapshot goes to the screen, nothing is uploaded, and the invocation
\* returns it.
SyncLoaded(i) ==
  /\ syncs[i].pc = "loaded"
  /\ MUTE_HEALTH_SNAPSHOT_POST
  /\ healthSnapshot' = syncs[i].snapshot
  /\ Finally(i)
  /\ syncs' = [syncs EXCEPT ![i] = [@ EXCEPT !.pc = "returned", !.result = "snapshot"]]
  /\ UNCHANGED <<platform, nativeModule, token>>
  /\ UNCHANGED <<iosVersion, available, syncNil, call, ret, lock, callVars, aggVars,
                 handlerVars>>

\* The catch block after loadHealthSnapshot threw: null.
SyncFailed(i) ==
  /\ syncs[i].pc = "failed"
  /\ Finally(i)
  /\ syncs' = [syncs EXCEPT ![i] = [@ EXCEPT !.pc = "returned", !.result = "null"]]
  /\ UNCHANGED <<platform, nativeModule, token, healthSnapshot>>
  /\ UNCHANGED <<iosVersion, available, syncNil, call, ret, lock, callVars, aggVars,
                 handlerVars>>

\* A successful login: setToken(...)
Login ==
  /\ ~token
  /\ token' = TRUE
  /\ UNCHANGED <<platform, nativeModule, healthSyncInFlightRef, healthLoading,
                 healthSnapshot, syncs>>
  /\ UNCHANGED <<iosVersion, available, syncNil, call, ret, lock, callVars, aggVars,
                 handlerVars>>

\* onLogout: the flag is reset, the token and the snapshot are dropped.
onLogout ==
  /\ token
  /\ token' = FALSE
  /\ healthSyncInFlightRef' = FALSE
  /\ healthSnapshot' = NoSnapshot
  /\ UNCHANGED <<platform, nativeModule, healthLoading, syncs>>
  /\ UNCHANGED <<iosVersion, available, syncNil, call, ret, lock, callVars, aggVars,
                 handlerVars>>

\* The application on any platform, with or without the native module, on
\* a device with or without health data.
InitSync ==
  /\ iosVersion = 18
  /\ available \in BOOLEAN
  /\ syncNil = {}
  /\ InitCalls
  /\ call = NoCall
  /\ ret = NoRet
  /\ InitApp({"ios", "android"}, BOOLEAN)

NextSyncStep ==
  \/ Login
  \/ onLogout
  \/ \E i \in Syncs :
       \/ \E useMock \in BOOLEAN : onLoadHealthData(i, useMock)
       \/ ensureFreshHealthSnapshotForChat(i)
       \/ AvailableReturns(i)
       \/ \E answer \in {"true", "false", "rejected"} : AuthorizationReturns(i, answer)
       \/ \E native \in NativeSnapshots : SnapshotReturns(i, native)
       \/ SyncLoaded(i)
       \/ SyncFailed(i)

SpecSync == InitSync /\ [][NextSyncStep]_vars

\* The invocations of syncHealthSnapshot between setting and clearing the
\* flag.
InFlight == {i \in Syncs : syncs[i].pc \in InFlightPcs}

\* C27. Single in-flight sync: across any interleaving of manual loads,
\* chat refreshes, logout and login, at most one invocation of
\* syncHealthSnapshot is between setting and clearing the in-flight flag;
\* an invocation that finds the flag set returns null without loading,
\* storing or uploading a snapshot; and the flag is cleared when the
\* invocation in flight finishes, by success or by failure.
C27_SingleInFlight ==
  /\ [](Cardinality(InFlight) <= 1)
  /\ [][\A i \in Syncs :
          /\ (syncs[i].pc = "idle" /\ syncs'[i].pc # "idle" /\ healthSyncInFlightRef) =>
               /\ syncs'[i].pc = "returned" /\ syncs'[i].result = "null"
               /\ syncs'[i].calls = <<>> /\ syncs'[i].snapshot = NoSnapshot
               /\ healthSnapshot' = healthSnapshot
          /\ (syncs[i].pc \in InFlightPcs /\ syncs'[i].pc = "returned") =>
               ~healthSyncInFlightRef']_vars

\* The native methods in the order loadHealthSnapshot calls them.
NativeOrder == <<"isHealthDataAvailable", "requestAuthorization", "getHealthSnapshot">>

\* The invocation i runs loadHealthSnapshot(false) on iOS with the native
\* module.
LoadsNative(i) ==
  /\ platform = "ios" /\ nativeModule
  /\ ~syncs[i].forceMock
  /\ syncs[i].pc \in InFlightPcs \cup {"returned"}
  /\ ~(syncs[i].pc = "returned" /\ syncs[i].calls = <<>>)

\* C30. loadHealthSnapshot on iOS with the native module and useMock false
\* asks for availability, then authorization, then the snapshot:
\* getHealthSnapshot is never called unless the availability and the
\* authorization answers were both true; when health data is unavailable
\* the result has source "mock" and authorized false and authorization is
\* not requested; a refused authorization makes it throw without asking for
\* a snapshot; and source "healthkit" is reported only after a native
\* snapshot was obtained.
C30_LoadOrder ==
  /\ [](\A i \in Syncs : LoadsNative(i) =>
          LET sync == syncs[i]
              asked == {sync.calls[k] : k \in 1..Len(sync.calls)}
          IN /\ sync.calls = SubSeq(NativeOrder, 1, Len(sync.calls))
             /\ "getHealthSnapshot" \in asked =>
                  (sync.isAvailable = "true" /\ sync.authorized = "true")
             /\ sync.isAvailable = "false" =>
                  /\ sync.snapshot.source = "mock" /\ ~sync.snapshot.authorized
                  /\ "requestAuthorization" \notin asked
                  /\ sync.error = ""
             /\ sync.authorized = "false" =>
                  /\ sync.error = "not authorized"
                  /\ sync.snapshot = NoSnapshot /\ sync.result # "snapshot"
                  /\ "getHealthSnapshot" \notin asked
             /\ sync.snapshot.source = "healthkit" =>
                  (sync.calls = NativeOrder /\ sync.pc \in {"loaded", "returned"}))
  /\ [][\A i \in Syncs :
          (syncs[i].snapshot.source # "healthkit"
             /\ syncs'[i].snapshot.source = "healthkit") =>
            (syncs[i].pc = "awaitSnapshot" /\ syncs[i].calls = NativeOrder)]_vars

\* A manual load that went through the three native calls and returned the
\* snapshot of HealthKit to the screen.
C30_Witness ==
  \E i \in Syncs :
    /\ LoadsNative(i)
    /\ syncs[i].pc = "returned" /\ syncs[i].result = "snapshot"
    /\ syncs[i].calls = NativeOrder
    /\ healthSnapshot.source = "healthkit"

(* ------------------------------------------------------------------ *)
(* The sleep blocks of the screen                                      *)
(* ------------------------------------------------------------------ *)

\* The clustering of section 4.2 with a tolerance: over the segments sorted
\* by start and then by end, a segment joins the current cluster when it
\* starts at most `tolerance` minutes after the end of the segment before
\* it, else it starts the next cluster.
RECURSIVE ToleranceLoop(_, _, _, _)
ToleranceLoop(rest, clusters, current, tolerance) ==
  IF rest = <<>> THEN (IF current # <<>> THEN Append(clusters, current) ELSE clusters)
  ELSE IF current = <<>> THEN ToleranceLoop(Tail(rest), clusters, <<Head(rest)>>, tolerance)
  ELSE IF Head(rest).startDate - current[Len(current)].endDate <= tolerance
    THEN ToleranceLoop(Tail(rest), clusters, Append(current, Head(rest)), tolerance)
  ELSE ToleranceLoop(Tail(rest), Append(clusters, current), <<Head(rest)>>, tolerance)

ClusteredWithin(segments, tolerance) ==
  ToleranceLoop(SortSamples(segments, "startEnd"), <<>>, <<>>, tolerance)

\* The samples that last longer than nothing.
PositiveSamples(samples) == SelectSeq(samples, LAMBDA x : x.endDate > x.startDate)

RECURSIVE TotalDuration(_)
TotalDuration(segments) ==
  IF segments = <<>> THEN 0
  ELSE Head(segments).endDate - Head(segments).startDate + TotalDuration(Tail(segments))

\* C28. The block builder of the screen is the clustering of section 4.2
\* with a tolerance of 45 minutes: for every list of sleep samples
\* buildSleepBlocks(normalizeSleepSegments(samples)) splits the samples of
\* positive duration at the boundaries of that clustering (as many blocks as
\* clusters, each block starting with its cluster and holding the minutes of
\* its cluster), and in every block asleepMinutes + awakeMinutes +
\* inBedMinutes <= totalMinutes.
C28_BlocksAreClusters ==
  Evaluated("buildSleepBlocks") =>
    LET clusters == ClusteredWithin(PositiveSamples(call.samples), 45)
    IN /\ Len(ret.v) = Len(clusters)
       /\ \A k \in 1..Len(ret.v) :
            /\ k <= Len(clusters) =>
                 /\ ret.v[k].startDate = clusters[k][1].startDate
                 /\ ret.v[k].totalMinutes = TotalDuration(clusters[k])
            /\ ret.v[k].asleepMinutes + ret.v[k].awakeMinutes + ret.v[k].inBedMinutes
                 <= ret.v[k].totalMinutes

\* The greatest asleepMinutes of the blocks.
MaxAsleep(blocks) ==
  CHOOSE m \in {blocks[k].asleepMinutes : k \in 1..Len(blocks)} :
    \A k \in 1..Len(blocks) : blocks[k].asleepMinutes <= m

\* C29. Main sleep block selection: chooseMainSleepBlock returns null if and
\* only if the list of blocks is empty; else, when the greatest
\* asleepMinutes of the blocks is at least 90, it returns a block with that
\* asleepMinutes, among several the one that ends latest, and when it is
\* below 90 it returns the last block of the list; and the list it was
\* given is neither reordered nor changed.
C29_MainBlock ==
  Evaluated("chooseMainSleepBlock") =>
    /\ (~ret.v.has <=> call.blocks = <<>>)
    /\ ret.v.blocks = call.blocks
    /\ call.blocks # <<>> =>
         LET top == MaxAsleep(call.blocks)
         IN IF top >= 90
              THEN /\ \E k \in 1..Len(call.blocks) : ret.v.block = call.blocks[k]
                   /\ ret.v.block.asleepMinutes = top
                   /\ \A k \in 1..Len(call.blocks) :
                        call.blocks[k].asleepMinutes = top =>
                          call.blocks[k].endDate <= ret.v.block.endDate
              ELSE ret.v.block = call.blocks[Len(call.blocks)]

\* Three blocks of less than 90 minutes asleep, the last of them with the
\* fewest: the last one is returned.
C29_Witness ==
  /\ Evaluated("chooseMainSleepBlock")
  /\ Len(call.blocks) = 3
  /\ call.blocks[1].asleepMinutes = 89 /\ call.blocks[3].asleepMinutes = 0
  /\ ret.v.has /\ ret.v.block = call.blocks[3]

====
